---------------------------- MODULE Spec2Model ----------------------------
(***************************************************************************)
(* tkr-npm-scan: the version matching and classification engine.           *)
(*                                                                         *)
(* Go:   pkg/matcher (MatchDirect, MatchTransitive, MatchPotential,        *)
(*       DeduplicateMatches), pkg/ioc (Database), pkg/parser (manifest and *)
(*       lockfile extraction).                                             *)
(* Node: lib/semver.js (parse, compare, equal, satisfies, isExactVersion)  *)
(*       and lib/matcher.js (matchPotentialDependencies, ...).             *)
(*                                                                         *)
(* A string of the program is a sequence of one-character strings, so that *)
(* prefix stripping, character searches, regular expressions and key       *)
(* formatting are computed on the characters as the code computes them.    *)
(***************************************************************************)
EXTENDS Naturals, Integers, Sequences, FiniteSets, TLC

VARIABLES
    iocDB,      \* Go ioc.Database.ioc / Node iocMap: package name -> versions
    manifest,   \* Go parser.Manifest handed to MatchDirect / MatchPotential
    lockfile,   \* Go parser.Lockfile handed to MatchTransitive
    nodeDeps,   \* Node: the dependencies array handed to the Node matchers
    input,      \* the []formatter.Match handed to DeduplicateMatches
    matches,    \* the slice / array the last operation returned
    op,         \* the operation that returned it ("init" before any call)
    csvData,    \* Go ioc.ParseCSV: the CSV text handed to the parser
    project,    \* the files FindManifests / FindLockfiles discover under a path
    scan,       \* the frame of one Go scanner.RunScan call
    bulk        \* Go bulk.RunBulkScan: collector, submitter, pool and workers

vars == <<iocDB, manifest, lockfile, nodeDeps, input, matches, op,
          csvData, project, scan, bulk>>

\* The variables of the scan orchestration, which the matcher calls leave alone.
scanVars == <<csvData, project, scan, bulk>>

\* No CSV text, no project, no scan and no bulk run.
NoScan == csvData = <<>> /\ project = <<>> /\ scan = <<>> /\ bulk = <<>>

-----------------------------------------------------------------------------
(* Characters and the string helpers of Go's strings package and of JS.    *)

Digits == {"0", "1", "2", "3", "4", "5", "6", "7", "8", "9"}

Lower ==
    {"a", "b", "c", "d", "e", "f", "g", "h", "i", "j", "k", "l", "m",
     "n", "o", "p", "q", "r", "s", "t", "u", "v", "w", "x", "y", "z"}

Upper ==
    {"A", "B", "C", "D", "E", "F", "G", "H", "I", "J", "K", "L", "M",
     "N", "O", "P", "Q", "R", "S", "T", "U", "V", "W", "X", "Y", "Z"}

\* [0-9A-Za-z-]: the characters of a prerelease or build identifier.
IdentChars == Digits \cup Lower \cup Upper \cup {"-"}

\* The characters of the model in code-point order.
AsciiOrder ==
    <<" ", "*", "+", ",", "-", ".", "/",
      "0", "1", "2", "3", "4", "5", "6", "7", "8", "9",
      ":", "<", "=", ">", "@",
      "A", "B", "C", "D", "E", "F", "G", "H", "I", "J", "K", "L", "M",
      "N", "O", "P", "Q", "R", "S", "T", "U", "V", "W", "X", "Y", "Z",
      "^", "_",
      "a", "b", "c", "d", "e", "f", "g", "h", "i", "j", "k", "l", "m",
      "n", "o", "p", "q", "r", "s", "t", "u", "v", "w", "x", "y", "z",
      "|", "~">>

Ord(c) == CHOOSE i \in 1..Len(AsciiOrder) : AsciiOrder[i] = c

DigitVal(c) ==
    CASE c = "0" -> 0 [] c = "1" -> 1 [] c = "2" -> 2 [] c = "3" -> 3
      [] c = "4" -> 4 [] c = "5" -> 5 [] c = "6" -> 6 [] c = "7" -> 7
      [] c = "8" -> 8 [] c = "9" -> 9

\* The element of a singleton.  The({e : x \in {a}}) is e with x standing for
\* the value of a, computed once.
The(S) == CHOOSE x \in S : TRUE

Take(s, n) == SubSeq(s, 1, n)

Drop(s, n) == SubSeq(s, n + 1, Len(s))

\* strings.HasPrefix / String.prototype.startsWith
HasPrefix(s, p) ==
    \E s_ \in {s}, p_ \in {p} :
        Len(s_) >= Len(p_) /\ SubSeq(s_, 1, Len(p_)) = p_

\* strings.TrimPrefix
TrimPrefix(s, p) ==
    The({IF HasPrefix(s_, p_) THEN Drop(s_, Len(p_)) ELSE s_ : s_ \in {s}, p_ \in {p}})

IsSpace(c) == c \in {" ", "\t", "\n", "\r"}

RECURSIVE TrimLeft(_)
TrimLeft(s) ==
    The({IF s_ # <<>> /\ IsSpace(s_[1]) THEN TrimLeft(Tail(s_)) ELSE s_ : s_ \in {s}})

RECURSIVE TrimRight(_)
TrimRight(s) ==
    The({IF s_ # <<>> /\ IsSpace(s_[Len(s_)])
         THEN TrimRight(Take(s_, Len(s_) - 1))
         ELSE s_ : s_ \in {s}})

\* strings.TrimSpace
TrimSpace(s) == TrimRight(TrimLeft(s))

\* strings.ContainsAny / a character-class search /[...]/
ContainsAny(s, chars) == \E s_ \in {s} : \E i \in 1..Len(s_) : s_[i] \in chars

\* Index of the first character of s that lies in chars, 0 when there is none.
IndexAny(s, chars) ==
    The({IF \E i \in 1..Len(s_) : s_[i] \in chars
         THEN CHOOSE i \in 1..Len(s_) :
                  s_[i] \in chars /\ \A j \in 1..(i - 1) : s_[j] \notin chars
         ELSE 0 : s_ \in {s}})

\* The pieces of s between the characters of seps (strings.Split on one
\* separator; with several separators, empty pieces are kept too).
RECURSIVE SplitAny(_, _)
SplitAny(s, seps) ==
    The({The({IF i = 0 THEN <<s_>>
              ELSE <<Take(s_, i - 1)>> \o SplitAny(Drop(s_, i), seps) :
              i \in {IndexAny(s_, seps)}}) : s_ \in {s}})

\* Index of the first occurrence of the substring p in s, 0 when there is none.
IndexOf(s, p) ==
    The({The({IF hits = {} THEN 0
              ELSE CHOOSE i \in hits : \A j \in hits : i <= j :
              hits \in {{i \in 1..(Len(s_) - Len(p) + 1) :
                            SubSeq(s_, i, i + Len(p) - 1) = p}}}) : s_ \in {s}})

\* strings.Split(s, sep) for a non-empty separator.
RECURSIVE Split(_, _)
Split(s, sep) ==
    The({The({IF i = 0 THEN <<s_>>
              ELSE <<Take(s_, i - 1)>> \o Split(Drop(s_, i + Len(sep) - 1), sep) :
              i \in {IndexOf(s_, sep)}}) : s_ \in {s}})

AllIn(s, chars) == \E s_ \in {s} : \A i \in 1..Len(s_) : s_[i] \in chars

\* \d+ : a non-empty run of digits.
IsNumber(s) == \E s_ \in {s} : s_ # <<>> /\ AllIn(s_, Digits)

\* strconv.ParseUint / parseInt(_, 10) of a run of digits.
RECURSIVE ParseUint(_)
ParseUint(s) ==
    The({IF s_ = <<>> THEN 0
         ELSE 10 * ParseUint(Take(s_, Len(s_) - 1)) + DigitVal(s_[Len(s_)]) :
         s_ \in {s}})

\* Length of the longest prefix of s made of characters of chars.
RECURSIVE SpanLen(_, _)
SpanLen(s, chars) ==
    The({IF s_ # <<>> /\ s_[1] \in chars THEN 1 + SpanLen(Tail(s_), chars) ELSE 0 :
         s_ \in {s}})

\* s < o in byte order (Go's string comparison).
RECURSIVE StrLess(_, _)
StrLess(s, o) ==
    \E s_ \in {s}, o_ \in {o} :
        IF o_ = <<>> THEN FALSE
        ELSE IF s_ = <<>> THEN TRUE
        ELSE IF s_[1] # o_[1] THEN Ord(s_[1]) < Ord(o_[1])
        ELSE StrLess(Tail(s_), Tail(o_))

-----------------------------------------------------------------------------
(* github.com/Masterminds/semver/v3, the library pkg/matcher calls:        *)
(* NewVersion (the coercing parser), Version.Compare, NewConstraint and    *)
(* Constraints.Validate.  A Version is [ok, major, minor, patch, pre].     *)

BadVersion == [ok |-> FALSE, major |-> 0, minor |-> 0, patch |-> 0, pre |-> <<>>]

\* [0-9A-Za-z-]+(\.[0-9A-Za-z-]+)*
IsIdentList(s) ==
    \E ids \in {SplitAny(s, {"."})} :
        \A i \in 1..Len(ids) : ids[i] # <<>> /\ AllIn(ids[i], IdentChars)

\* validatePrerelease: a numeric identifier has no leading zero.
NoLeadingZero(s) ==
    \E ids \in {SplitAny(s, {"."})} :
        \A i \in 1..Len(ids) :
            ~(IsNumber(ids[i]) /\ Len(ids[i]) > 1 /\ ids[i][1] = "0")

\* A version text cut at its first "+" (build metadata) and, before that, at
\* its first "-" (prerelease): core(-pre)?(+meta)?
CutVersion(t) ==
    The({The({The({[core |-> IF dash = 0 THEN body ELSE Take(body, dash - 1),
                    pre  |-> IF dash = 0 THEN <<>> ELSE Drop(body, dash),
                    ok   |-> /\ (plus # 0 => IsIdentList(Drop(t_, plus)))
                             /\ (dash # 0 => IsIdentList(Drop(body, dash)))] :
                   dash \in {IndexAny(body, {"-"})}}) :
              body \in {IF plus = 0 THEN t_ ELSE Take(t_, plus - 1)}}) :
         t_ \in {t}, plus \in {IndexAny(t, {"+"})}})

\* semver.NewVersion: v?N(.N)?(.N)?(-pre)?(+meta)? over the whole string;
\* a missing minor or patch is coerced to 0.
NewVersion(s) ==
    The({The({IF /\ cut.ok
                 /\ Len(parts) <= 3
                 /\ \A i \in 1..Len(parts) : IsNumber(parts[i])
                 /\ NoLeadingZero(cut.pre)
              THEN [ok    |-> TRUE,
                    major |-> ParseUint(parts[1]),
                    minor |-> IF Len(parts) >= 2 THEN ParseUint(parts[2]) ELSE 0,
                    patch |-> IF Len(parts) >= 3 THEN ParseUint(parts[3]) ELSE 0,
                    pre   |-> cut.pre]
              ELSE BadVersion :
              parts \in {SplitAny(cut.core, {"."})}}) :
         cut \in {CutVersion(TrimPrefix(s, <<"v">>))}})

\* comparePrePart: numeric identifiers by value and below alphanumeric ones,
\* alphanumeric ones in byte order, a missing identifier below any other.
ComparePrePart(s, o) ==
    The({IF s_ = o_ THEN 0
         ELSE IF s_ = <<>> THEN -1
         ELSE IF o_ = <<>> THEN 1
         ELSE IF ~IsNumber(s_) /\ ~IsNumber(o_) THEN (IF StrLess(o_, s_) THEN 1 ELSE -1)
         ELSE IF ~IsNumber(o_) THEN -1
         ELSE IF ~IsNumber(s_) THEN 1
         ELSE IF ParseUint(s_) > ParseUint(o_) THEN 1 ELSE -1 :
         s_ \in {s}, o_ \in {o}})

RECURSIVE ComparePreParts(_, _)
ComparePreParts(sp, op_) ==
    The({IF sp_ = <<>> /\ o_ = <<>> THEN 0
         ELSE The({IF d # 0 THEN d
                   ELSE ComparePreParts(IF sp_ = <<>> THEN <<>> ELSE Tail(sp_),
                                        IF o_ = <<>> THEN <<>> ELSE Tail(o_)) :
                   d \in {ComparePrePart(IF sp_ = <<>> THEN <<>> ELSE sp_[1],
                                         IF o_ = <<>> THEN <<>> ELSE o_[1])}}) :
         sp_ \in {sp}, o_ \in {op_}})

\* Version.Compare: -1, 0 or 1.
VersionCompare(v, o) ==
    The({IF v_.major # o_.major THEN (IF v_.major < o_.major THEN -1 ELSE 1)
         ELSE IF v_.minor # o_.minor THEN (IF v_.minor < o_.minor THEN -1 ELSE 1)
         ELSE IF v_.patch # o_.patch THEN (IF v_.patch < o_.patch THEN -1 ELSE 1)
         ELSE IF v_.pre = <<>> /\ o_.pre = <<>> THEN 0
         ELSE IF v_.pre = <<>> THEN 1
         ELSE IF o_.pre = <<>> THEN -1
         ELSE ComparePreParts(SplitAny(v_.pre, {"."}), SplitAny(o_.pre, {"."})) :
         v_ \in {v}, o_ \in {o}})


\* The operators of a constraint ("" stands for "=").
ConstraintOps ==
    {<<>>, <<"=">>, <<"!", "=">>, <<">">>, <<"<">>, <<">", "=">>, <<"=", ">">>,
     <<"<", "=">>, <<"=", "<">>, <<"~">>, <<"~", ">">>, <<"^">>}

OpChars == {"=", "!", ">", "<", "~", "^"}

\* [0-9|x|X|\*]: the characters of one part of a constraint's version.
CvPartChars == Digits \cup {"x", "X", "*", "|"}

\* isX: a wildcard part.
IsX(part) == part \in {<<"x">>, <<"X">>, <<"*">>}

JoinDots(a, b, c) == a \o <<".">> \o b \o <<".">> \o c

BadConstraint ==
    [ok |-> FALSE, fn |-> <<>>, con |-> BadVersion,
     dirty |-> FALSE, minorDirty |-> FALSE, patchDirty |-> FALSE]

\* The version a constraint item compares with: wildcard and missing parts
\* count as 0 and make the constraint dirty.
ConstraintVersion(fn, cv, cut, parts) ==
    The({The({IF /\ fn \in ConstraintOps
                 /\ cut.ok
                 /\ n <= 3
                 /\ \A i \in 1..n : parts[i] # <<>> /\ AllIn(parts[i], CvPartChars)
                 /\ con.ok
              THEN [ok |-> TRUE, fn |-> fn, con |-> con,
                    dirty |-> d1 \/ d2 \/ d3, minorDirty |-> d2, patchDirty |-> d3]
              ELSE BadConstraint :
              con \in {NewVersion(
                          IF d1 THEN JoinDots(<<"0">>, <<"0">>, <<"0">>) \o sfx
                          ELSE IF d2 THEN JoinDots(parts[1], <<"0">>, <<"0">>) \o sfx
                          ELSE IF d3 THEN JoinDots(parts[1], parts[2], <<"0">>) \o sfx
                          ELSE cv)}}) :
         n   \in {Len(parts)},
         sfx \in {IF cut.pre = <<>> THEN <<>> ELSE <<"-">> \o cut.pre},
         d1  \in {IsX(parts[1])},
         d2  \in {~IsX(parts[1]) /\ (Len(parts) < 2 \/ IsX(parts[2]))},
         d3  \in {/\ ~IsX(parts[1])
                  /\ ~(Len(parts) < 2 \/ IsX(parts[2]))
                  /\ (Len(parts) < 3 \/ IsX(parts[3]))}})

\* parseConstraint on one item "<op><version>" (constraintRegex).
ParseConstraint(fn, cv) ==
    The({The({ConstraintVersion(fn_, cv_, cut, SplitAny(cut.core, {"."})) :
              cut \in {CutVersion(TrimPrefix(cv_, <<"v">>))}}) :
         fn_ \in {fn}, cv_ \in {cv}})

\* One AND-list (a segment between "||"): items "<op>\s*<version>" separated
\* by blanks or commas (validConstraintRegex, then findConstraintRegex).
\* toks are the non-empty pieces between the separators.
RECURSIVE ParseItems(_)
ParseItems(toks) ==
    The({IF ts = <<>> THEN <<>>
         ELSE The({IF k = Len(ts[1])
                   THEN \* an operator on its own: its version is the next piece
                        IF Len(ts) < 2 THEN <<BadConstraint>>
                        ELSE <<ParseConstraint(ts[1], ts[2])>>
                                 \o ParseItems(Tail(Tail(ts)))
                   ELSE <<ParseConstraint(Take(ts[1], k), Drop(ts[1], k))>>
                            \o ParseItems(Tail(ts)) :
                   k \in {SpanLen(ts[1], OpChars)}}) :
         ts \in {toks}})

ParseSegment(seg) ==
    The({IF toks = <<>> THEN <<BadConstraint>> ELSE ParseItems(toks) :
         toks \in {SelectSeq(SplitAny(seg, {" ", ","}), LAMBDA x : x # <<>>)}})

\* The AND-lists of the segments segs.
RECURSIVE ParseSegments(_)
ParseSegments(segs) ==
    The({IF ss = <<>> THEN <<>>
         ELSE <<ParseSegment(ss[1])>> \o ParseSegments(Tail(ss)) : ss \in {segs}})

\* semver.NewConstraint: the "||"-separated AND-lists; ok is FALSE when any
\* item is improper.  (rewriteRange, which turns "a - b" into ">= a, <= b",
\* leaves a string without " - " as it is.)
NewConstraint(c) ==
    The({[ok  |-> \A i \in 1..Len(ors) : \A j \in 1..Len(ors[i]) : ors[i][j].ok,
          ors |-> ors] :
         ors \in {ParseSegments(Split(c, <<"|", "|">>))}})

\* constraintTilde
ConstraintTilde(v, c) ==
    IF VersionCompare(v, c.con) < 0 THEN FALSE
    ELSE IF /\ c.con.major = 0 /\ c.con.minor = 0 /\ c.con.patch = 0
            /\ ~c.minorDirty /\ ~c.patchDirty THEN TRUE
    ELSE IF v.major # c.con.major THEN FALSE
    ELSE IF v.minor # c.con.minor /\ ~c.minorDirty THEN FALSE
    ELSE TRUE

\* constraintCaret
ConstraintCaret(v, c) ==
    IF VersionCompare(v, c.con) < 0 THEN FALSE
    ELSE IF c.con.major > 0 \/ c.minorDirty THEN v.major = c.con.major
    ELSE IF v.major > 0 THEN FALSE
    ELSE IF c.con.minor > 0 \/ c.patchDirty THEN v.minor = c.con.minor
    ELSE IF v.minor > 0 THEN FALSE
    ELSE v.patch = c.con.patch

\* constraintGreaterThan
ConstraintGreaterThan(v, c) ==
    IF ~c.dirty THEN VersionCompare(v, c.con) = 1
    ELSE IF v.major > c.con.major THEN TRUE
    ELSE IF v.major < c.con.major THEN FALSE
    ELSE IF c.minorDirty THEN FALSE
    ELSE IF c.patchDirty THEN v.minor > c.con.minor
    ELSE VersionCompare(v, c.con) = 1

\* constraintLessThanEqual
ConstraintLessThanEqual(v, c) ==
    IF ~c.dirty THEN VersionCompare(v, c.con) <= 0
    ELSE IF v.major > c.con.major THEN FALSE
    ELSE IF v.major = c.con.major /\ v.minor > c.con.minor /\ ~c.minorDirty
         THEN FALSE
    ELSE TRUE

\* constraintNotEqual
ConstraintNotEqual(v, c) ==
    IF ~c.dirty THEN VersionCompare(v, c.con) # 0
    ELSE IF v.pre # <<>> /\ c.con.pre = <<>> THEN FALSE
    ELSE IF c.con.major # v.major THEN TRUE
    ELSE IF c.con.minor # v.minor /\ ~c.minorDirty THEN TRUE
    ELSE IF c.minorDirty THEN FALSE
    ELSE IF c.con.patch # v.patch /\ ~c.patchDirty THEN TRUE
    ELSE FALSE

\* constraint.check: every operator but != refuses a prerelease version when
\* the constraint names none.
ConstraintCheck(v, c) ==
    IF c.fn = <<"!", "=">> THEN ConstraintNotEqual(v, c)
    ELSE IF v.pre # <<>> /\ c.con.pre = <<>> THEN FALSE
    ELSE IF c.fn \in {<<>>, <<"=">>}
         THEN (IF c.dirty THEN ConstraintTilde(v, c)
               ELSE VersionCompare(v, c.con) = 0)
    ELSE IF c.fn = <<">">> THEN ConstraintGreaterThan(v, c)
    ELSE IF c.fn = <<"<">> THEN VersionCompare(v, c.con) < 0
    ELSE IF c.fn \in {<<">", "=">>, <<"=", ">">>} THEN VersionCompare(v, c.con) >= 0
    ELSE IF c.fn \in {<<"<", "=">>, <<"=", "<">>} THEN ConstraintLessThanEqual(v, c)
    ELSE IF c.fn \in {<<"~">>, <<"~", ">">>} THEN ConstraintTilde(v, c)
    ELSE ConstraintCaret(v, c)

\* Constraints.Validate, as versionSatisfiesRange reads it (valid, and no
\* error reported): some AND-list has every item satisfied.
ConstraintsValidate(cs, v) ==
    \E ors \in {cs.ors}, v_ \in {v} :
        \E i \in 1..Len(ors) :
            \A j \in 1..Len(ors[i]) :
                \E c \in {ors[i][j]} :
                    /\ ~(c.con.pre = <<>> /\ v_.pre # <<>>)
                    /\ ConstraintCheck(v_, c)


-----------------------------------------------------------------------------
(* Go: pkg/formatter (Match), pkg/ioc (Database), pkg/parser (extraction).  *)

SeverityDirect == <<"D", "I", "R", "E", "C", "T">>

SeverityTransitive == <<"T", "R", "A", "N", "S", "I", "T", "I", "V", "E">>

SeverityPotential == <<"P", "O", "T", "E", "N", "T", "I", "A", "L">>

\* formatter.Match
Match(name, version, severity, location, declaredSpec) ==
    [PackageName |-> name, Version |-> version, Severity |-> severity,
     Location |-> location, DeclaredSpec |-> declaredSpec]

\* A variant of Lookup that looks for the package only.
LookupPackage(db, pkg, ver) == pkg \in DOMAIN db

\* Database.Lookup: the package is present and ver is, as a string, one of
\* its versions.
Lookup(db, pkg, ver) ==
    /\ pkg \in DOMAIN db
    /\ \E i \in 1..Len(db[pkg]) : db[pkg][i] = ver

\* Database.GetVersions: <<>> stands for nil (package absent).
GetVersions(db, pkg) == IF pkg \in DOMAIN db THEN db[pkg] ELSE <<>>

\* Every order in which a range over a Go map with key set S may run.
RECURSIVE PermSeqs(_)
PermSeqs(S) ==
    IF S = {} THEN {<<>>}
    ELSE UNION {{<<x>> \o p : p \in PermSeqs(S \ {x})} : x \in S}

\* {a \o b}: the sequences made of one of A followed by one of B.
ConcatSets(A, B) == {a \o b : a \in A, b \in B}

DepTypes ==
    {"dependencies", "devDependencies", "peerDependencies", "optionalDependencies"}

DepMap(m, depType) ==
    CASE depType = "dependencies"         -> m.Dependencies
      [] depType = "devDependencies"      -> m.DevDependencies
      [] depType = "peerDependencies"     -> m.PeerDependencies
      [] depType = "optionalDependencies" -> m.OptionalDependencies

\* parser.Dependency
Dependency(name, spec, depType, filePath) ==
    [Name |-> name, VersionSpec |-> spec, Type |-> depType, FilePath |-> filePath]

\* The inner loop of ExtractDependencies over one map, in the key order ks.
DepsOfMap(m, depType, ks, filePath) ==
    LET all == [i \in 1..Len(ks) |->
                   Dependency(ks[i], DepMap(m, depType)[ks[i]], depType, filePath)]
    IN  SelectSeq(all, LAMBDA d : d.Name # <<>> /\ d.VersionSpec # <<>>)

\* The outer loop of ExtractDependencies over the maps named in types: the
\* set of lists it may build (Go ranges over a map in an unspecified order).
RECURSIVE DepsOfMaps(_, _, _)
DepsOfMaps(m, types, filePath) ==
    IF types = {} THEN {<<>>}
    ELSE UNION {
           ConcatSets({DepsOfMap(m, t, ks, filePath) :
                           ks \in PermSeqs(DOMAIN DepMap(m, t))},
                      DepsOfMaps(m, types \ {t}, filePath)) : t \in types}

\* parser.ExtractDependencies: the four maps, then bundledDependencies with
\* an empty version spec.
ExtractDependencies(m, filePath) ==
    LET nonNil  == {t \in DepTypes : DOMAIN DepMap(m, t) # {}}
        bundled == SelectSeq(m.BundledDependencies, LAMBDA n : n # <<>>)
        tail    == [i \in 1..Len(bundled) |->
                       Dependency(bundled[i], <<>>, "bundledDependencies", filePath)]
    IN  {ds \o tail : ds \in DepsOfMaps(m, nonNil, filePath)}

\* A JSON object of a lockfile (map[string]interface{}): strs are its
\* string-valued keys, objs its object-valued keys.
EmptyObject == [strs |-> <<>>, objs |-> <<>>]

KeyVersion == <<"v", "e", "r", "s", "i", "o", "n">>

NodeModulesPrefix ==
    <<"n", "o", "d", "e", "_", "m", "o", "d", "u", "l", "e", "s", "/">>

\* parser.ResolvedPackage
ResolvedPackage(name, version, filePath) ==
    [Name |-> name, Version |-> version, LockfilePath |-> filePath]

\* nested["version"].(string): "" when the key is absent or not a string.
VersionOfObject(o) ==
    IF KeyVersion \in DOMAIN o.strs THEN o.strs[KeyVersion] ELSE <<>>

\* extractDepsRecursive over deps (name -> PackageInfo), a PackageInfo being
\* [Version, Dependencies], Dependencies a JSON object.  A nested value that
\* is an object becomes PackageInfo{its "version", Dependencies: itself}.
RECURSIVE extractDepsRecursive(_, _)
RECURSIVE extractDepsInOrder(_, _, _)
extractDepsInOrder(deps, ks, filePath) ==
    IF ks = <<>> THEN {<<>>}
    ELSE LET info   == deps[ks[1]]
             nested == [k \in DOMAIN info.Dependencies.objs |->
                           [Version      |-> VersionOfObject(info.Dependencies.objs[k]),
                            Dependencies |-> info.Dependencies.objs[k]]]
             here   == IF info.Version = <<>> THEN {<<>>}
                       ELSE ConcatSets(
                              {<<ResolvedPackage(ks[1], info.Version, filePath)>>},
                              IF DOMAIN info.Dependencies.strs = {}
                                 /\ DOMAIN info.Dependencies.objs = {}
                              THEN {<<>>}
                              ELSE extractDepsRecursive(nested, filePath))
         IN  ConcatSets(here, extractDepsInOrder(deps, Tail(ks), filePath))

extractDepsRecursive(deps, filePath) ==
    UNION {extractDepsInOrder(deps, ks, filePath) : ks \in PermSeqs(DOMAIN deps)}

\* The v2/v3 loop of ExtractResolvedPackages over the paths ps.
PackagesInOrder(lf, ps, filePath) ==
    LET kept == SelectSeq(ps, LAMBDA q : /\ q # <<>>
                                         /\ q # <<".">>
                                         /\ lf.Packages[q].Version # <<>>)
    IN  [i \in 1..Len(kept) |->
            ResolvedPackage(TrimPrefix(kept[i], NodeModulesPrefix),
                            lf.Packages[kept[i]].Version, filePath)]

\* parser.ExtractResolvedPackages: the set of lists it may return.
ExtractResolvedPackages(lf, filePath) ==
    IF DOMAIN lf.Packages # {}
    THEN {PackagesInOrder(lf, ps, filePath) : ps \in PermSeqs(DOMAIN lf.Packages)}
    ELSE IF DOMAIN lf.Dependencies # {}
    THEN extractDepsRecursive(lf.Dependencies, filePath)
    ELSE {<<>>}


-----------------------------------------------------------------------------
(* Go: pkg/matcher.                                                        *)

\* cleanVersionSpec: trim, strip one each of ^ ~ >= <= > < = in that order,
\* trim again.
cleanVersionSpec(spec) ==
    LET s0 == TrimSpace(spec)
        s1 == TrimPrefix(s0, <<"^">>)
        s2 == TrimPrefix(s1, <<"~">>)
        s3 == TrimPrefix(s2, <<">", "=">>)
        s4 == TrimPrefix(s3, <<"<", "=">>)
        s5 == TrimPrefix(s4, <<">">>)
        s6 == TrimPrefix(s5, <<"<">>)
        s7 == TrimPrefix(s6, <<"=">>)
    IN  TrimSpace(s7)

PrefixFile == <<"f", "i", "l", "e", ":">>

PrefixGit == <<"g", "i", "t", ":">>

PrefixHttp == <<"h", "t", "t", "p", ":">>

PrefixHttps == <<"h", "t", "t", "p", "s", ":">>

Latest == <<"l", "a", "t", "e", "s", "t">>

\* The non-semver specs both isExactVersion and isSemverRange exclude.
IsNonSemverSpec(s) ==
    \/ HasPrefix(s, PrefixFile)
    \/ HasPrefix(s, PrefixGit)
    \/ HasPrefix(s, PrefixHttp)
    \/ HasPrefix(s, PrefixHttps)
    \/ s = Latest
    \/ s = <<>>

\* A variant of isExactVersion that looks for an operator only.
isExactVersionNoOperator(spec) ==
    ~ContainsAny(TrimSpace(spec), {"~", "^", ">", "<", "=", "*", "x"})

\* A variant of isExactVersion that parses the cleaned spec and never looks
\* for an operator.
isExactVersionCleaned(spec) == NewVersion(cleanVersionSpec(spec)).ok

\* isExactVersion
isExactVersion(spec) ==
    LET s == TrimSpace(spec)
    IN  /\ ~ContainsAny(s, {"^", "~", ">", "<", "*", "|"})
        /\ ~IsNonSemverSpec(s)
        /\ NewVersion(s).ok

\* A variant of isSemverRange without the exclusion of "*".
isSemverRangeWithStar(spec) ==
    LET s == TrimSpace(spec)
    IN  ~IsNonSemverSpec(s) /\ NewConstraint(s).ok

\* isSemverRange
isSemverRange(spec) ==
    LET s == TrimSpace(spec)
    IN  /\ ~IsNonSemverSpec(s)
        /\ s # <<"*">>
        /\ NewConstraint(s).ok

\* versionSatisfiesRange
versionSatisfiesRange(version, rangeSpec) ==
    LET v  == NewVersion(version)
        cs == NewConstraint(rangeSpec)
    IN  IF ~v.ok THEN FALSE
        ELSE IF ~cs.ok THEN version = cleanVersionSpec(rangeSpec)
        ELSE ConstraintsValidate(cs, v)

\* MatchDirect, given the list ExtractDependencies returned.
MatchDirect(deps, db) ==
    LET hit == SelectSeq(deps, LAMBDA dep :
                   /\ isExactVersion(dep.VersionSpec)
                   /\ Lookup(db, dep.Name, cleanVersionSpec(dep.VersionSpec)))
    IN  [i \in 1..Len(hit) |->
            Match(hit[i].Name, cleanVersionSpec(hit[i].VersionSpec),
                  SeverityDirect, hit[i].FilePath, <<>>)]

\* MatchTransitive, given the list ExtractResolvedPackages returned.
MatchTransitive(packages, db) ==
    LET hit == SelectSeq(packages, LAMBDA pkg :
                   Lookup(db, pkg.Name, cleanVersionSpec(pkg.Version)))
    IN  [i \in 1..Len(hit) |->
            Match(hit[i].Name, cleanVersionSpec(hit[i].Version),
                  SeverityTransitive, hit[i].LockfilePath, <<>>)]

\* A variant of the inner loop of MatchPotential that stops at the first
\* listed version satisfying the range.
PotentialOfDepFirst(dep, db) ==
    LET vulnerable == SelectSeq(GetVersions(db, dep.Name), LAMBDA vulnVer :
                          versionSatisfiesRange(vulnVer, dep.VersionSpec))
    IN  IF vulnerable = <<>> THEN <<>>
        ELSE <<Match(dep.Name, vulnerable[1], SeverityPotential,
                     dep.FilePath, dep.VersionSpec)>>

\* The inner loop of MatchPotential: one match per listed version that
\* satisfies the range of dep.
PotentialOfDep(dep, db) ==
    LET vulnerable == SelectSeq(GetVersions(db, dep.Name), LAMBDA vulnVer :
                          versionSatisfiesRange(vulnVer, dep.VersionSpec))
    IN  [i \in 1..Len(vulnerable) |->
            Match(dep.Name, vulnerable[i], SeverityPotential,
                  dep.FilePath, dep.VersionSpec)]

\* MatchPotential, given the list ExtractDependencies returned.
RECURSIVE MatchPotential(_, _)
MatchPotential(deps, db) ==
    IF deps = <<>> THEN <<>>
    ELSE LET dep == Head(deps)
         IN  (IF \/ isExactVersion(dep.VersionSpec)
                 \/ ~isSemverRange(dep.VersionSpec)
              THEN <<>>
              ELSE PotentialOfDep(dep, db))
             \o MatchPotential(Tail(deps), db)

\* The key of DeduplicateMatches: fmt.Sprintf("%s@%s:%s", ...).
DedupKey(m) == m.PackageName \o <<"@">> \o m.Version \o <<":">> \o m.Severity

\* A variant of the loop of DeduplicateMatches that puts each kept match in
\* front of the result.
RECURSIVE DedupLoopPrepend(_, _, _)
DedupLoopPrepend(ms, seen, result) ==
    IF ms = <<>> THEN result
    ELSE LET key == DedupKey(Head(ms))
         IN  IF key \in seen
             THEN DedupLoopPrepend(Tail(ms), seen, result)
             ELSE DedupLoopPrepend(Tail(ms), seen \cup {key}, <<Head(ms)>> \o result)

\* The loop of DeduplicateMatches: seen is the set of keys met so far.
RECURSIVE DedupLoop(_, _, _)
DedupLoop(ms, seen, result) ==
    IF ms = <<>> THEN result
    ELSE LET key == DedupKey(Head(ms))
         IN  IF key \in seen
             THEN DedupLoop(Tail(ms), seen, result)
             ELSE DedupLoop(Tail(ms), seen \cup {key}, Append(result, Head(ms)))

\* DeduplicateMatches
DeduplicateMatches(ms) == DedupLoop(ms, {}, <<>>)

-----------------------------------------------------------------------------
(* The inputs of the Go matchers.                                          *)

PkgA == <<"a">>

PkgB == <<"b">>

V101 == <<"1", ".", "0", ".", "1">>

V110 == <<"1", ".", "1", ".", "0">>

V200 == <<"2", ".", "0", ".", "0">>

\* Versions the IoC feed lists.
IocVersions == {V101, V110, V200}

\* Exact pins: a listed version, a safe one, one with blanks around it, one
\* with a leading v.
Pin101 == V101

Pin300 == <<"3", ".", "0", ".", "0">>

PinBlank101 == <<" ", "1", ".", "0", ".", "1", " ">>

PinV101 == <<"v", "1", ".", "0", ".", "1">>

\* Ranges.
Caret100 == <<"^", "1", ".", "0", ".", "0">>

Tilde100 == <<"~", "1", ".", "0", ".", "0">>

Gte101 == <<">", "=", "1", ".", "0", ".", "1">>

Gt101 == <<">", "1", ".", "0", ".", "1">>

Lt200 == <<"<", "2", ".", "0", ".", "0">>

Lte101 == <<"<", "=", "1", ".", "0", ".", "1">>

Eq101 == <<"=", "1", ".", "0", ".", "1">>

Gte100Lt200 == <<">", "=", "1", ".", "0", ".", "0", " ", "<", "2", ".", "0", ".", "0">>

Or101Or200 == <<"1", ".", "0", ".", "1", " ", "|", "|", " ", "2", ".", "0", ".", "0">>

Major1X == <<"1", ".", "x">>

WildX == <<"x">>

Star == <<"*">>

\* Specs that are neither a version nor a range.
FileSpec == <<"f", "i", "l", "e", ":", ".", ".", "/", "x">>

GitSpec == <<"g", "i", "t", ":", "/", "/", "h", "/", "r", ".", "g", "i", "t">>

GitSshSpec == <<"g", "i", "t", "+", "s", "s", "h", ":", "/", "/", "h", "/", "r">>

HttpSpec == <<"h", "t", "t", "p", ":", "/", "/", "h", "/", "p", ".", "t", "g", "z">>

HttpsSpec == <<"h", "t", "t", "p", "s", ":", "/", "/", "h", "/", "p", ".", "t", "g", "z">>

\* A GitHub shorthand and a text of four numbers.
GithubSpec == <<"u", "/", "r">>

FourNumbers == <<"1", ".", "0", ".", "1", ".", "0">>

ManifestPath == "package.json"

LockfilePath == "package-lock.json"


\* Longest version list of one package in the IoC table.
MaxVersions == 2

\* The sequences over S of length lo..hi.
SeqsOf(S, lo, hi) == UNION {[1..n -> S] : n \in lo..hi}

\* An optional value of S: {} (absent) or {x}.
Opt(S) == {{}} \cup {{x} : x \in S}

\* The map with the key k bound to the value of o, empty when o is absent.
Bind(k, o) == IF o = {} THEN <<>> ELSE (k :> CHOOSE x \in o : TRUE)

\* IoC tables: package a with up to MaxVersions listed versions in any order
\* (repeated rows repeat a version) or with the one row "latest", package b
\* absent or with one version.
IocTables ==
    {Bind(PkgA, va) @@ Bind(PkgB, vb) :
        va \in Opt(SeqsOf(IocVersions, 1, MaxVersions) \cup {<<Latest>>}),
        vb \in Opt({<<V101>>})}

\* The version specs a manifest of the model declares.
GoSpecs ==
    {Pin101, Pin300, PinBlank101, PinV101,
     Caret100, Tilde100, Gte101, Gt101, Lt200, Lte101, Eq101,
     Gte100Lt200, Or101Or200, Major1X, WildX, Star,
     Latest, FileSpec, GitSpec, GitSshSpec, HttpSpec, HttpsSpec,
     GithubSpec, FourNumbers, <<>>}

EmptyManifest ==
    [Dependencies |-> <<>>, DevDependencies |-> <<>>, PeerDependencies |-> <<>>,
     OptionalDependencies |-> <<>>, BundledDependencies |-> <<>>]

\* A manifest from its five sections.
ManifestOf(s1, s2, s3, s4, bd) ==
    [Dependencies         |-> Bind(PkgA, s1),
     DevDependencies      |-> Bind(PkgA, s2),
     PeerDependencies     |-> Bind(PkgB, s3),
     OptionalDependencies |-> Bind(PkgB, s4),
     BundledDependencies  |-> bd]

\* Manifests: package a under dependencies with any spec and possibly under
\* devDependencies, or every section filled from a pin and a range with a
\* possibly bundled.
Manifests ==
    {ManifestOf(s1, s2, {}, {}, <<>>) :
        s1 \in Opt(GoSpecs), s2 \in Opt({Pin101, Caret100})}
    \cup
    {ManifestOf(s1, s2, s3, s4, bd) :
        s1 \in Opt({Pin101, Caret100, Star}),
        s2 \in Opt({Pin101, Caret100}),
        s3 \in Opt({Pin101}),
        s4 \in Opt({Caret100}),
        bd \in {<<>>, <<PkgA>>}}

EmptyLockfile == [Version |-> 0, Packages |-> <<>>, Dependencies |-> <<>>]

PackageInfo(version, dependencies) ==
    [Version |-> version, Dependencies |-> dependencies]

PathA == NodeModulesPrefix \o PkgA

PathB == NodeModulesPrefix \o PkgB

\* Resolved versions a lockfile of the model records (<<>>: no version).
LockVersions == {V101, V200, PinV101, <<>>}

\* v2/v3 lockfiles: the root entry "" and the entries of a and b.
LockfilesV3 ==
    {[Version      |-> 3,
      Packages     |-> Bind(<<>>, r) @@ Bind(PathA, pa) @@ Bind(PathB, pb),
      Dependencies |-> <<>>] :
        r  \in Opt({PackageInfo(V101, EmptyObject)}),
        pa \in Opt({PackageInfo(v, EmptyObject) : v \in LockVersions}),
        pb \in Opt({PackageInfo(v, EmptyObject) : v \in LockVersions})}

\* v1 lockfiles: a and b at the top level, b possibly nested under a.
LockfilesV1 ==
    {[Version      |-> 1,
      Packages     |-> <<>>,
      Dependencies |-> Bind(PkgA, da) @@ Bind(PkgB, db)] :
        da \in Opt(
               {PackageInfo(v, o) :
                    v \in {V101, V200},
                    o \in {EmptyObject,
                           [strs |-> <<>>,
                            objs |-> (PkgB :> [strs |-> (KeyVersion :> V101),
                                               objs |-> <<>>])]}}),
        db \in Opt({PackageInfo(V101, EmptyObject), PackageInfo(<<>>, EmptyObject)})}

Lockfiles == LockfilesV3 \cup LockfilesV1

-----------------------------------------------------------------------------
(* Spec: the Go matchers applied to a manifest or a lockfile and an IoC     *)
(* table.                                                                  *)

Init ==
    /\ iocDB \in IocTables
    /\ \/ manifest \in Manifests /\ lockfile = EmptyLockfile
       \/ manifest = EmptyManifest /\ lockfile \in Lockfiles
    /\ nodeDeps = <<>>
    /\ input = <<>>
    /\ matches = <<>>
    /\ op = "init"
    /\ NoScan

CallMatchDirect ==
    /\ op = "init"
    /\ \E deps \in ExtractDependencies(manifest, ManifestPath) :
           matches' = MatchDirect(deps, iocDB)
    /\ op' = "MatchDirect"
    /\ UNCHANGED <<iocDB, manifest, lockfile, nodeDeps, input>>
    /\ UNCHANGED scanVars

CallMatchPotential ==
    /\ op = "init"
    /\ \E deps \in ExtractDependencies(manifest, ManifestPath) :
           matches' = MatchPotential(deps, iocDB)
    /\ op' = "MatchPotential"
    /\ UNCHANGED <<iocDB, manifest, lockfile, nodeDeps, input>>
    /\ UNCHANGED scanVars

CallMatchTransitive ==
    /\ op = "init"
    /\ \E packages \in ExtractResolvedPackages(lockfile, LockfilePath) :
           matches' = MatchTransitive(packages, iocDB)
    /\ op' = "MatchTransitive"
    /\ UNCHANGED <<iocDB, manifest, lockfile, nodeDeps, input>>
    /\ UNCHANGED scanVars

Next ==
    \/ CallMatchDirect
    \/ CallMatchPotential
    \/ CallMatchTransitive

Spec == Init /\ [][Next]_vars

-----------------------------------------------------------------------------
(* Vocabulary of the properties of the Go matchers.                         *)

\* The elements of a sequence.
Range(s) == {s[i] : i \in DOMAIN s}

\* A complete version MAJOR.MINOR.PATCH, blanks around it and a leading v
\* allowed, with no operator.
IsPlainVersion(s) ==
    LET t0    == TrimSpace(s)
        t1    == IF HasPrefix(t0, <<"v">>) THEN Tail(t0) ELSE t0
        parts == Split(t1, <<".">>)
    IN  Len(parts) = 3 /\ \A i \in 1..3 : IsNumber(parts[i])

\* The declarations of a manifest: <<section, name, spec>>.
Declarations(m) ==
    UNION {{<<t, n, DepMap(m, t)[n]>> : n \in DOMAIN DepMap(m, t)} : t \in DepTypes}

\* The version v is, as text, one of those the table lists for n.
Listed(db, n, v) == n \in DOMAIN db /\ v \in Range(db[n])

\* How many findings of ms are about n at v with the severity sev.
CountOf(ms, n, v, sev) ==
    Cardinality({i \in DOMAIN ms : /\ ms[i].PackageName = n
                                   /\ ms[i].Version = v
                                   /\ ms[i].Severity = sev})

\* The declarations that pin n to the exact version v.
ExactPins(m, n, v) ==
    {d \in Declarations(m) : d[2] = n /\ IsPlainVersion(d[3]) /\ TrimSpace(d[3]) = v}

\* C1: MatchDirect returns DIRECT findings only, located in the manifest, and
\* for every package and version as many as there are declarations pinning
\* the package to that exact version when the table lists it for the
\* package, none otherwise: one finding per such declaration and no finding
\* for a safe pin, a range, a non-semver spec or an unlisted package.
C1_MatchDirectOnePerListedPin ==
    op = "MatchDirect" =>
        /\ \A i \in DOMAIN matches :
               /\ matches[i].Severity = SeverityDirect
               /\ matches[i].Location = ManifestPath
               /\ matches[i].DeclaredSpec = <<>>
               /\ ExactPins(manifest, matches[i].PackageName, matches[i].Version) # {}
               /\ Listed(iocDB, matches[i].PackageName, matches[i].Version)
        /\ \A d \in Declarations(manifest) :
               LET v == TrimSpace(d[3])
               IN  CountOf(matches, d[2], v, SeverityDirect) =
                       IF IsPlainVersion(d[3]) /\ Listed(iocDB, d[2], v)
                       THEN Cardinality(ExactPins(manifest, d[2], v))
                       ELSE 0

\* Two sections pin a to a listed version and give two findings, while the
\* range declared for b, whose version the table lists, gives none.
C1_Witness ==
    /\ op = "MatchDirect"
    /\ Len(matches) = 2
    /\ Cardinality(ExactPins(manifest, PkgA, V101)) = 2
    /\ PkgB \in DOMAIN manifest.OptionalDependencies
    /\ PkgB \notin DOMAIN manifest.PeerDependencies
    /\ Listed(iocDB, PkgB, V101)

\* The resolved entries of a lockfile, the root entry left out:
\* <<place, name, version>>.
ResolvedEntries(lf) ==
    IF DOMAIN lf.Packages # {}
    THEN {<<q, Drop(q, Len(NodeModulesPrefix)), lf.Packages[q].Version>> :
              q \in DOMAIN lf.Packages \ {<<>>}}
    ELSE {<<<<n>>, n, lf.Dependencies[n].Version>> : n \in DOMAIN lf.Dependencies}
         \cup
         UNION {{<<<<n, k>>, k, VersionOfObject(lf.Dependencies[n].Dependencies.objs[k])>> :
                     k \in DOMAIN lf.Dependencies[n].Dependencies.objs} :
                n \in DOMAIN lf.Dependencies}

\* C2: MatchTransitive returns TRANSITIVE findings only, located in the
\* lockfile, and for every package and version as many as there are resolved
\* entries of the package at that version when the table lists it for the
\* package, none otherwise; the root entry gives no finding.
C2_MatchTransitiveOnePerListedEntry ==
    op = "MatchTransitive" =>
        /\ \A i \in DOMAIN matches :
               /\ matches[i].Severity = SeverityTransitive
               /\ matches[i].Location = LockfilePath
               /\ matches[i].PackageName # <<>>
               /\ Listed(iocDB, matches[i].PackageName, matches[i].Version)
               /\ \E e \in ResolvedEntries(lockfile) :
                      e[2] = matches[i].PackageName /\ e[3] = matches[i].Version
        /\ \A e \in ResolvedEntries(lockfile) :
               CountOf(matches, e[2], e[3], SeverityTransitive) =
                   IF Listed(iocDB, e[2], e[3])
                   THEN Cardinality({f \in ResolvedEntries(lockfile) :
                                        f[2] = e[2] /\ f[3] = e[3]})
                   ELSE 0

\* A lockfile with a root entry, a at a listed version and b at a version
\* the table does not list for it: one finding, about a.
C2_Witness ==
    /\ op = "MatchTransitive"
    /\ <<>> \in DOMAIN lockfile.Packages
    /\ PathA \in DOMAIN lockfile.Packages
    /\ PathB \in DOMAIN lockfile.Packages
    /\ lockfile.Packages[PathB].Version = V200
    /\ Listed(iocDB, PkgB, V101)
    /\ Len(matches) = 1
    /\ matches[1].PackageName = PkgA

\* The numbers of a complete version.
Triple(v) ==
    LET parts == Split(v, <<".">>)
    IN  <<ParseUint(parts[1]), ParseUint(parts[2]), ParseUint(parts[3])>>

\* a precedes b in the order of versions.
TripleLess(a, b) ==
    \/ a[1] < b[1]
    \/ a[1] = b[1] /\ a[2] < b[2]
    \/ a[1] = b[1] /\ a[2] = b[2] /\ a[3] < b[3]

\* lo <= v < hi
Between(v, lo, hi) == ~TripleLess(Triple(v), lo) /\ TripleLess(Triple(v), hi)

\* The range specs of the model.
RangeSpecs ==
    {Caret100, Tilde100, Gte101, Gt101, Lt200, Lte101, Eq101,
     Gte100Lt200, Or101Or200, Major1X, WildX}

\* The meaning of each range spec: the versions it admits.
InRange(s, v) ==
    /\ IsPlainVersion(v)
    /\ CASE s = Caret100    -> Between(v, <<1, 0, 0>>, <<2, 0, 0>>)
         [] s = Tilde100    -> Between(v, <<1, 0, 0>>, <<1, 1, 0>>)
         [] s = Gte101      -> ~TripleLess(Triple(v), <<1, 0, 1>>)
         [] s = Gt101       -> TripleLess(<<1, 0, 1>>, Triple(v))
         [] s = Lt200       -> TripleLess(Triple(v), <<2, 0, 0>>)
         [] s = Lte101      -> ~TripleLess(<<1, 0, 1>>, Triple(v))
         [] s = Eq101       -> Triple(v) = <<1, 0, 1>>
         [] s = Gte100Lt200 -> Between(v, <<1, 0, 0>>, <<2, 0, 0>>)
         [] s = Or101Or200  -> Triple(v) \in {<<1, 0, 1>>, <<2, 0, 0>>}
         [] s = Major1X     -> Between(v, <<1, 0, 0>>, <<2, 0, 0>>)
         [] s = WildX       -> TRUE

\* How many POTENTIAL findings of ms are about n at v with the declared spec s.
CountSpec(ms, n, v, s) ==
    Cardinality({i \in DOMAIN ms : /\ ms[i].PackageName = n
                                   /\ ms[i].Version = v
                                   /\ ms[i].Severity = SeverityPotential
                                   /\ ms[i].DeclaredSpec = s})

\* How many rows of the table list v for n.
Rows(db, n, v) ==
    Cardinality({j \in DOMAIN GetVersions(db, n) : GetVersions(db, n)[j] = v})

\* C3: MatchPotential returns POTENTIAL findings only; a declaration of a
\* range gives, for every listed version of its package that the range
\* admits, one finding per row listing it, carrying the range as
\* DeclaredSpec, and none for a version outside the range; a declaration of
\* an exact version gives no finding.
C3_MatchPotentialEverySatisfying ==
    op = "MatchPotential" =>
        /\ \A i \in DOMAIN matches :
               /\ matches[i].Severity = SeverityPotential
               /\ matches[i].Location = ManifestPath
        /\ \A d \in Declarations(manifest) :
               /\ d[3] \in RangeSpecs =>
                      \A v \in Range(GetVersions(iocDB, d[2])) \cup IocVersions :
                          CountSpec(matches, d[2], v, d[3]) =
                              IF InRange(d[3], v)
                              THEN Rows(iocDB, d[2], v) *
                                   Cardinality({f \in Declarations(manifest) :
                                                   f[2] = d[2] /\ f[3] = d[3]})
                              ELSE 0
               /\ IsPlainVersion(d[3]) =>
                      \A i \in DOMAIN matches :
                          ~(matches[i].PackageName = d[2] /\ matches[i].DeclaredSpec = d[3])

\* ^1.0.0 on a with two listed versions inside the range gives two findings,
\* the pin of a in devDependencies none.
C3_Witness ==
    /\ op = "MatchPotential"
    /\ PkgA \in DOMAIN manifest.Dependencies
    /\ manifest.Dependencies[PkgA] = Caret100
    /\ PkgA \in DOMAIN manifest.DevDependencies
    /\ manifest.DevDependencies[PkgA] = Pin101
    /\ GetVersions(iocDB, PkgA) = <<V101, V110>>
    /\ CountSpec(matches, PkgA, V101, Caret100) = 1
    /\ CountSpec(matches, PkgA, V110, Caret100) = 1

\* s without its leading v.
StripV(s) == IF HasPrefix(s, <<"v">>) THEN Tail(s) ELSE s

\* C5: a declared exact version or a resolved version that equals a listed
\* version once a leading v is ignored produces a DIRECT, respectively a
\* TRANSITIVE, finding.
C5_LeadingVIgnored ==
    /\ op = "MatchDirect" =>
           \A d \in Declarations(manifest) :
               (IsPlainVersion(d[3]) /\ Listed(iocDB, d[2], StripV(TrimSpace(d[3])))) =>
                   \E i \in DOMAIN matches :
                       matches[i].PackageName = d[2] /\ matches[i].Severity = SeverityDirect
    /\ op = "MatchTransitive" =>
           \A e \in ResolvedEntries(lockfile) :
               (IsPlainVersion(e[3]) /\ Listed(iocDB, e[2], StripV(e[3]))) =>
                   \E i \in DOMAIN matches :
                       matches[i].PackageName = e[2] /\ matches[i].Severity = SeverityTransitive

NonVersionSpecs ==
    {Latest, FileSpec, GitSpec, GitSshSpec, HttpSpec, HttpsSpec,
     GithubSpec, FourNumbers, <<>>}

\* The specs a manifest declares for n, <<>> for a bundled dependency.
DeclaredSpecs(m, n) ==
    {d[3] : d \in {e \in Declarations(m) : e[2] = n}} \cup
    (IF n \in Range(m.BundledDependencies) THEN {<<>>} ELSE {})

-----------------------------------------------------------------------------
(* SpecDedup: DeduplicateMatches applied to a list of findings, then to its  *)
(* own result.                                                             *)

\* Longest list of findings handed to DeduplicateMatches.
MaxMatches == 3

NameP == <<"p">>

NamePAt1 == <<"p", "@", "1">>

Version1 == <<"1">>

Version1At1 == <<"1", "@", "1">>

\* The findings of the lists: two names, two versions, two severities and two
\* locations.
MatchPool ==
    {Match(n, v, s, l, <<>>) :
        n \in {NameP, NamePAt1},
        v \in {Version1, Version1At1},
        s \in {SeverityDirect, SeverityTransitive},
        l \in {"x", "y"}}

InitDedup ==
    /\ iocDB = <<>>
    /\ manifest = EmptyManifest
    /\ lockfile = EmptyLockfile
    /\ nodeDeps = <<>>
    /\ input \in SeqsOf(MatchPool, 0, MaxMatches)
    /\ matches = <<>>
    /\ op = "init"
    /\ NoScan

\* DeduplicateMatches(input)
CallDeduplicateMatches ==
    /\ op = "init"
    /\ matches' = DeduplicateMatches(input)
    /\ op' = "DeduplicateMatches"
    /\ UNCHANGED <<iocDB, manifest, lockfile, nodeDeps, input>>
    /\ UNCHANGED scanVars

\* DeduplicateMatches applied to the list it has just returned.
CallDeduplicateMatchesAgain ==
    /\ op = "DeduplicateMatches"
    /\ input' = matches
    /\ matches' = DeduplicateMatches(matches)
    /\ op' = "DeduplicateMatchesAgain"
    /\ UNCHANGED <<iocDB, manifest, lockfile, nodeDeps>>
    /\ UNCHANGED scanVars

NextDedup ==
    \/ CallDeduplicateMatches
    \/ CallDeduplicateMatchesAgain

SpecDedup == InitDedup /\ [][NextDedup]_vars

\* The first position of x in the list s.
FirstIndex(s, x) == CHOOSE i \in DOMAIN s : s[i] = x /\ \A j \in 1..(i - 1) : s[j] # x

\* out is made of elements of s, each once, in the order in which they first
\* occur in s.
InFirstOccurrenceOrder(out, s) ==
    /\ \A k \in DOMAIN out : out[k] \in Range(s)
    /\ \A k, l \in DOMAIN out :
           k < l => FirstIndex(s, out[k]) < FirstIndex(s, out[l])

\* C9: the result of DeduplicateMatches is no longer than its argument and is
\* a subsequence of it whose findings stand in the order of their first
\* occurrences, and DeduplicateMatches leaves its own result unchanged.
C9_DedupIdempotentOrderPreserving ==
    /\ op = "DeduplicateMatches" =>
           /\ Len(matches) <= Len(input)
           /\ InFirstOccurrenceOrder(matches, input)
    /\ op = "DeduplicateMatchesAgain" => matches = input

\* A list of three findings, the third repeating the first, has been reduced
\* to the first two, and reduced again.
C9_Witness ==
    /\ op = "DeduplicateMatchesAgain"
    /\ Len(input) = 2
    /\ input[1] # input[2]
    /\ matches = input

\* The (PackageName, Version, Severity) triple of a finding.
TripleOf(m) == <<m.PackageName, m.Version, m.Severity>>

\* C10: the result of DeduplicateMatches holds, for every triple
\* (PackageName, Version, Severity) of its argument, exactly one finding,
\* which is the first finding of the argument with that triple.
C10_OnePerTriple ==
    op = "DeduplicateMatches" =>
        /\ \A k, l \in DOMAIN matches :
               TripleOf(matches[k]) = TripleOf(matches[l]) => k = l
        /\ \A i \in DOMAIN input :
               \E k \in DOMAIN matches :
                   /\ TripleOf(matches[k]) = TripleOf(input[i])
                   /\ \E j \in 1..i :
                          /\ input[j] = matches[k]
                          /\ \A h \in 1..(j - 1) : TripleOf(input[h]) # TripleOf(input[i])

-----------------------------------------------------------------------------
(* Node: the semver utilities (parse, compare, equal, satisfies,            *)
(* isExactVersion) and the matcher.  A parsed version is                    *)
(* [ok, major, minor, patch, prerelease]; ok = FALSE stands for null and    *)
(* prerelease = <<>> for a null prerelease.                                 *)

NullVersion == [ok |-> FALSE, major |-> 0, minor |-> 0, patch |-> 0, prerelease |-> <<>>]

\* [a-zA-Z0-9.-]
PrereleaseChars == Lower \cup Upper \cup Digits \cup {".", "-"}

\* A variant of parse that does not remove a leading v.
parseKeepingV(version) ==
    LET cleaned == version
        n1 == SpanLen(cleaned, Digits)
        r1 == Drop(cleaned, n1)
        n2 == IF HasPrefix(r1, <<".">>) THEN SpanLen(Tail(r1), Digits) ELSE 0
        r2 == Drop(r1, n2 + 1)
        n3 == IF HasPrefix(r2, <<".">>) THEN SpanLen(Tail(r2), Digits) ELSE 0
        r3 == Drop(r2, n3 + 1)
        np == IF HasPrefix(r3, <<"-">>) THEN SpanLen(Tail(r3), PrereleaseChars) ELSE 0
    IN  IF version = <<>> \/ n1 = 0 \/ n2 = 0 \/ n3 = 0 THEN NullVersion
        ELSE [ok         |-> TRUE,
              major      |-> ParseUint(Take(cleaned, n1)),
              minor      |-> ParseUint(SubSeq(r1, 2, n2 + 1)),
              patch      |-> ParseUint(SubSeq(r2, 2, n3 + 1)),
              prerelease |-> SubSeq(r3, 2, np + 1)]

\* parse: one leading v removed, then the regular expression
\* ^(\d+)\.(\d+)\.(\d+)(?:-([a-zA-Z0-9.-]+))? which is not anchored at the
\* end: whatever follows the match is ignored.
parse(version) ==
    LET cleaned == IF HasPrefix(version, <<"v">>) THEN Tail(version) ELSE version
        n1 == SpanLen(cleaned, Digits)
        r1 == Drop(cleaned, n1)
        n2 == IF HasPrefix(r1, <<".">>) THEN SpanLen(Tail(r1), Digits) ELSE 0
        r2 == Drop(r1, n2 + 1)
        n3 == IF HasPrefix(r2, <<".">>) THEN SpanLen(Tail(r2), Digits) ELSE 0
        r3 == Drop(r2, n3 + 1)
        np == IF HasPrefix(r3, <<"-">>) THEN SpanLen(Tail(r3), PrereleaseChars) ELSE 0
    IN  IF version = <<>> \/ n1 = 0 \/ n2 = 0 \/ n3 = 0 THEN NullVersion
        ELSE [ok         |-> TRUE,
              major      |-> ParseUint(Take(cleaned, n1)),
              minor      |-> ParseUint(SubSeq(r1, 2, n2 + 1)),
              patch      |-> ParseUint(SubSeq(r2, 2, n3 + 1)),
              prerelease |-> SubSeq(r3, 2, np + 1)]

\* String.prototype.localeCompare, for strings of digits and lower-case
\* letters, where the locale order is the order of the characters.
localeCompare(a, b) == IF a = b THEN 0 ELSE IF StrLess(a, b) THEN -1 ELSE 1

\* A variant of compare that stops after major, minor and patch.
compareTriples(a, b) ==
    IF a.major # b.major THEN a.major - b.major
    ELSE IF a.minor # b.minor THEN a.minor - b.minor
    ELSE a.patch - b.patch

\* compare
compare(a, b) ==
    IF a.major # b.major THEN a.major - b.major
    ELSE IF a.minor # b.minor THEN a.minor - b.minor
    ELSE IF a.patch # b.patch THEN a.patch - b.patch
    ELSE IF a.prerelease # <<>> /\ b.prerelease = <<>> THEN -1
    ELSE IF a.prerelease = <<>> /\ b.prerelease # <<>> THEN 1
    ELSE IF a.prerelease # <<>> /\ b.prerelease # <<>>
         THEN localeCompare(a.prerelease, b.prerelease)
    ELSE 0

\* equal
equal(a, b) ==
    LET parsedA == parse(a)
        parsedB == parse(b)
    IN  IF ~parsedA.ok \/ ~parsedB.ok THEN FALSE
        ELSE compare(parsedA, parsedB) = 0

\* /[~^><=*x]/
RangeOperatorChars == {"~", "^", ">", "<", "=", "*", "x"}

\* The branch of satisfies for ^(\d+)\.([x*]|(\d+)\.[x*])$ , v the parsed
\* version.
satisfiesPartialWildcard(v, range) ==
    LET n1 == SpanLen(range, Digits)
        r1 == Drop(range, n1)
        g2 == Tail(r1)
        n2 == SpanLen(g2, Digits)
        r2 == Drop(g2, n2)
    IN  IF n1 = 0 \/ ~HasPrefix(r1, <<".">>) THEN FALSE
        ELSE IF g2 \in {<<"x">>, <<"*">>}
             THEN v.major = ParseUint(Take(range, n1))
        ELSE IF n2 > 0 /\ r2 \in {<<".", "x">>, <<".", "*">>}
             THEN /\ v.major = ParseUint(Take(range, n1))
                  /\ v.minor = ParseUint(Take(g2, n2))
        ELSE FALSE

\* satisfies
satisfies(version, range) ==
    LET v == parse(version)
    IN  IF version = <<>> \/ range = <<>> THEN FALSE
        ELSE IF ~v.ok THEN FALSE
        ELSE IF ~ContainsAny(range, RangeOperatorChars)
             THEN LET r == parse(range)
                  IN  r.ok /\ compare(v, r) = 0
        ELSE IF HasPrefix(range, <<"^">>)
             THEN LET r == parse(Drop(range, 1))
                  IN  IF ~r.ok THEN FALSE
                      ELSE IF v.major # r.major THEN FALSE
                      ELSE IF r.major = 0
                           THEN IF v.minor # r.minor THEN FALSE
                                ELSE IF r.minor = 0 THEN v.patch >= r.patch
                                ELSE compare(v, r) >= 0
                      ELSE compare(v, r) >= 0
        ELSE IF HasPrefix(range, <<"~">>)
             THEN LET r == parse(Drop(range, 1))
                  IN  IF ~r.ok THEN FALSE
                      ELSE IF v.major # r.major \/ v.minor # r.minor THEN FALSE
                      ELSE v.patch >= r.patch
        ELSE IF HasPrefix(range, <<">", "=">>)
             THEN LET r == parse(Drop(range, 2)) IN r.ok /\ compare(v, r) >= 0
        ELSE IF HasPrefix(range, <<"<", "=">>)
             THEN LET r == parse(Drop(range, 2)) IN r.ok /\ compare(v, r) <= 0
        ELSE IF HasPrefix(range, <<">">>)
             THEN LET r == parse(Drop(range, 1)) IN r.ok /\ compare(v, r) > 0
        ELSE IF HasPrefix(range, <<"<">>)
             THEN LET r == parse(Drop(range, 1)) IN r.ok /\ compare(v, r) < 0
        ELSE IF HasPrefix(range, <<"=">>)
             THEN LET r == parse(Drop(range, 1)) IN r.ok /\ compare(v, r) = 0
        ELSE IF range = <<"*">> \/ range = <<"x">> THEN TRUE
        ELSE satisfiesPartialWildcard(v, range)

\* isExactVersion of the Node scanner.
isExactVersion_js(versionSpec) ==
    IF versionSpec = <<>> THEN FALSE
    ELSE IF ContainsAny(versionSpec, RangeOperatorChars) THEN FALSE
    ELSE parse(versionSpec).ok

\* A dependency as the Node parsers hand it to the matcher.
NodeDependency(name, versionSpec, filePath) ==
    [name |-> name, versionSpec |-> versionSpec, filePath |-> filePath]

\* A match of the Node matcher.
NodeMatch(packageName, version, severity, location, declaredSpec) ==
    [packageName |-> packageName, version |-> version, severity |-> severity,
     location |-> location, declaredSpec |-> declaredSpec]

\* matchPotentialDependencies (the matcher over a Map of name to versions):
\* the loop over the versions breaks at the first one that satisfies.
RECURSIVE matchPotentialDependencies(_, _)
matchPotentialDependencies(dependencies, iocMap) ==
    IF dependencies = <<>> THEN <<>>
    ELSE LET dep         == Head(dependencies)
             iocVersions == IF dep.name \in DOMAIN iocMap THEN iocMap[dep.name] ELSE <<>>
             hits        == SelectSeq(iocVersions, LAMBDA iocVersion :
                                satisfies(iocVersion, dep.versionSpec))
         IN  (IF iocVersions = <<>> THEN <<>>
              ELSE IF isExactVersion_js(dep.versionSpec) THEN <<>>
              ELSE IF hits = <<>> THEN <<>>
              ELSE <<NodeMatch(dep.name, hits[1], SeverityPotential,
                               dep.filePath, dep.versionSpec)>>)
             \o matchPotentialDependencies(Tail(dependencies), iocMap)

-----------------------------------------------------------------------------
(* SpecNode: the Node matcher applied to a list of declared dependencies    *)
(* and an IoC map.                                                         *)

\* >=1.0.0 <2.0.0 <<bad
BadRange ==
    <<">", "=", "1", ".", "0", ".", "0", " ", "<", "2", ".", "0", ".", "0",
      " ", "<", "<", "b", "a", "d">>

\* <<bad
BadOperator == <<"<", "<", "b", "a", "d">>

\* The version specs of the Node dependencies.
NodeSpecs ==
    {Pin101, PinV101, Caret100, Tilde100, Gte101, Lt200, Eq101, Gte100Lt200,
     Major1X, Star, WildX, Latest, BadRange, BadOperator}

\* Dependency lists: a alone, or a followed by b.
NodeDependencyLists ==
    {<<NodeDependency(PkgA, s, ManifestPath)>> : s \in NodeSpecs}
    \cup
    {<<NodeDependency(PkgA, s, ManifestPath), NodeDependency(PkgB, s2, ManifestPath)>> :
        s \in NodeSpecs, s2 \in {Pin101, Caret100}}

InitNode ==
    /\ iocDB \in IocTables
    /\ manifest = EmptyManifest
    /\ lockfile = EmptyLockfile
    /\ nodeDeps \in NodeDependencyLists
    /\ input = <<>>
    /\ matches = <<>>
    /\ op = "init"
    /\ NoScan

\* matchPotentialDependencies(nodeDeps, iocDB)
CallMatchPotentialDependencies ==
    /\ op = "init"
    /\ matches' = matchPotentialDependencies(nodeDeps, iocDB)
    /\ op' = "matchPotentialDependencies"
    /\ UNCHANGED <<iocDB, manifest, lockfile, nodeDeps, input>>
    /\ UNCHANGED scanVars

NextNode == CallMatchPotentialDependencies

SpecNode == InitNode /\ [][NextNode]_vars

\* How many findings of the Node matcher are about n at v with the declared
\* spec s.
NodeCountSpec(ms, n, v, s) ==
    Cardinality({i \in DOMAIN ms : /\ ms[i].packageName = n
                                   /\ ms[i].version = v
                                   /\ ms[i].severity = SeverityPotential
                                   /\ ms[i].declaredSpec = s})

\* C4: in the Node matcher, a dependency declared with a spec that is not
\* exact gives a POTENTIAL finding carrying the spec for every version its
\* package has in the IoC map that satisfies the spec.
C4_NodePotentialEverySatisfying ==
    op = "matchPotentialDependencies" =>
        \A k \in DOMAIN nodeDeps :
            ~isExactVersion_js(nodeDeps[k].versionSpec) =>
                \A v \in Range(GetVersions(iocDB, nodeDeps[k].name)) :
                    satisfies(v, nodeDeps[k].versionSpec) =>
                        NodeCountSpec(matches, nodeDeps[k].name, v,
                                      nodeDeps[k].versionSpec) >= 1

\* C6: in the Node matcher, a dependency declared >=1.0.0 <2.0.0 <<bad or
\* <<bad is satisfied by no listed version and gives no POTENTIAL finding.
C6_NodeFailClosed ==
    op = "matchPotentialDependencies" =>
        \A k \in DOMAIN nodeDeps :
            nodeDeps[k].versionSpec \in {BadRange, BadOperator} =>
                \A v \in Range(GetVersions(iocDB, nodeDeps[k].name)) :
                    /\ ~satisfies(v, nodeDeps[k].versionSpec)
                    /\ NodeCountSpec(matches, nodeDeps[k].name, v,
                                     nodeDeps[k].versionSpec) = 0

-----------------------------------------------------------------------------
(* Go: pkg/scanner (RunScan) over the files discovered under a path.        *)

\* Most files of one kind (manifests, lockfiles) under the scanned path.
MaxFiles == 2

PackageJson == <<"p", "a", "c", "k", "a", "g", "e", ".", "j", "s", "o", "n">>

PackageLockJson ==
    <<"p", "a", "c", "k", "a", "g", "e", "-", "l", "o", "c", "k", ".", "j", "s", "o", "n">>

YarnLockName == <<"y", "a", "r", "n", ".", "l", "o", "c", "k">>

\* The directory of the i-th file found by the walk: the root, w/, w/w/, ...
RECURSIVE DirOf(_)
DirOf(i) == IF i <= 1 THEN <<>> ELSE <<"w", "/">> \o DirOf(i - 1)

\* A file that cannot be read or parsed.
ParseFailure == [failed |-> TRUE]

\* parser.YarnLock after ParseYarnLock.
YarnLock(packages) == [yarn |-> TRUE, Packages |-> packages]

\* FindManifests: the paths of the manifests of the project, in walk order.
FindManifests(p) == [i \in 1..Len(p.manifests) |-> DirOf(i) \o PackageJson]

\* FindLockfiles: the paths of the lockfiles of the project, in walk order.
FindLockfiles(p) ==
    [i \in 1..Len(p.lockfiles) |->
        DirOf(i) \o (IF "yarn" \in DOMAIN p.lockfiles[i]
                     THEN YarnLockName ELSE PackageLockJson)]

\* isYarnLockfile: the last nine characters of the path are yarn.lock.
isYarnLockfile(path) ==
    /\ Len(path) >= 9
    /\ Drop(path, Len(path) - 9) = YarnLockName

\* convertYarnToLockfile: a Lockfile whose Packages map is keyed by
\* node_modules/<name>; a later package of the same name overwrites.
RECURSIVE YarnPackagesMap(_)
YarnPackagesMap(resolvedPackages) ==
    IF resolvedPackages = <<>> THEN <<>>
    ELSE LET n    == Len(resolvedPackages)
             pkg  == resolvedPackages[n]
         IN  ((NodeModulesPrefix \o pkg.Name) :> PackageInfo(pkg.Version, EmptyObject))
             @@ YarnPackagesMap(SubSeq(resolvedPackages, 1, n - 1))

convertYarnToLockfile(resolvedPackages) ==
    [Version |-> 1, Packages |-> YarnPackagesMap(resolvedPackages),
     Dependencies |-> <<>>]

\* Database.Count
Count(db) == Cardinality(DOMAIN db)

\* Database.Size
RECURSIVE SizeOver(_, _)
SizeOver(db, pkgs) ==
    IF pkgs = {} THEN 0
    ELSE LET pkg == CHOOSE x \in pkgs : TRUE
         IN  Len(db[pkg]) + SizeOver(db, pkgs \ {pkg})

Size(db) == SizeOver(db, DOMAIN db)

\* formatter.ScanResult (without the timestamp).
ScanResult(manifestsScanned, lockfilesScanned, packagesChecked, ms, iocCount) ==
    [ManifestsScanned |-> manifestsScanned, LockfilesScanned |-> lockfilesScanned,
     PackagesChecked |-> packagesChecked, Matches |-> ms, IOCCount |-> iocCount]

\* The frame of RunScan before its first statement.
ScanCalled(lockfileOnly) ==
    [pc |-> "call", LockfileOnly |-> lockfileOnly, ctxDone |-> FALSE,
     cancelledAt |-> "never",
     manifestPaths |-> <<>>, lockfilePaths |-> <<>>, i |-> 0,
     allMatches |-> <<>>, packagesChecked |-> 0,
     result |-> <<>>, err |-> "nil"]

\* return nil, err
ScanReturnError(s, err) ==
    [s EXCEPT !.pc = "returned", !.result = <<>>, !.err = err]

\* Where RunScan stands after the manifest loop has handled its i-th path.
AfterManifest(s, i) ==
    IF i < Len(s.manifestPaths)
    THEN [s EXCEPT !.pc = "checkManifest", !.i = i + 1]
    ELSE IF Len(s.lockfilePaths) > 0
    THEN [s EXCEPT !.pc = "checkLockfile", !.i = 1]
    ELSE [s EXCEPT !.pc = "dedup", !.i = 0]

\* A variant of AfterLockfile that leaves the lockfile loop after any path.
AfterLockfileBreak(s, i) == [s EXCEPT !.pc = "dedup", !.i = 0]

\* Where RunScan stands after the lockfile loop has handled its i-th path.
AfterLockfile(s, i) ==
    IF i < Len(s.lockfilePaths)
    THEN [s EXCEPT !.pc = "checkLockfile", !.i = i + 1]
    ELSE [s EXCEPT !.pc = "dedup", !.i = 0]

-----------------------------------------------------------------------------
(* Node: lib/parsers.js (manifest and lockfile parsers), lib/matcher.js     *)
(* (direct and transitive matchers) and lib/scanner.js (runScan).           *)

\* The text of an array index of Object.entries.
IndexText(i) == <<AsciiOrder[Ord("0") + i]>>

\* The entries of one section of a package.json in the key order ks.
NodeDepsOfMap(deps, ks, filePath) ==
    [i \in 1..Len(ks) |-> NodeDependency(ks[i], deps[ks[i]], filePath)]

\* The entries of the four object sections named in types, in the order of
\* dependencyTypes; the keys of an object come in their order in the file.
RECURSIVE NodeDepsOfMaps(_, _, _)
NodeDepsOfMaps(m, types, filePath) ==
    IF types = <<>> THEN {<<>>}
    ELSE ConcatSets({NodeDepsOfMap(DepMap(m, types[1]), ks, filePath) :
                        ks \in PermSeqs(DOMAIN DepMap(m, types[1]))},
                    NodeDepsOfMaps(m, Tail(types), filePath))

\* parsePackageJson: the four objects, then the entries of the array
\* bundledDependencies, whose keys are the indexes and whose values are the
\* names.
parsePackageJson(m, filePath) ==
    IF "failed" \in DOMAIN m THEN {<<>>}
    ELSE LET bundled == [i \in 1..Len(m.BundledDependencies) |->
                            NodeDependency(IndexText(i - 1), m.BundledDependencies[i],
                                           filePath)]
         IN  {ds \o bundled :
                 ds \in NodeDepsOfMaps(m, <<"dependencies", "devDependencies",
                                            "peerDependencies", "optionalDependencies">>,
                                       filePath)}

\* A resolved package of the Node parsers.
NodeResolvedPackage(name, version, lockfilePath) ==
    [name |-> name, version |-> version, lockfilePath |-> lockfilePath]

KeyDependencies == <<"d", "e", "p", "e", "n", "d", "e", "n", "c", "i", "e", "s">>

\* The entries of a v1 dependencies object whose values are objects, as
\* name -> [version, dependencies].
NodeInfosOf(o) ==
    [k \in DOMAIN o.objs |->
        [version      |-> VersionOfObject(o.objs[k]),
         dependencies |-> IF KeyDependencies \in DOMAIN o.objs[k].objs
                          THEN o.objs[k].objs[KeyDependencies]
                          ELSE EmptyObject]]

\* extractDeps of parsePackageLock over infos in the key order ks.
RECURSIVE extractDeps(_, _)
RECURSIVE extractDepsOrdered(_, _, _)
extractDepsOrdered(infos, ks, filePath) ==
    IF ks = <<>> THEN {<<>>}
    ELSE LET info == infos[ks[1]]
             here == IF info.version = <<>> THEN {<<>>}
                     ELSE ConcatSets(
                            {<<NodeResolvedPackage(ks[1], info.version, filePath)>>},
                            extractDeps(NodeInfosOf(info.dependencies), filePath))
         IN  ConcatSets(here, extractDepsOrdered(infos, Tail(ks), filePath))

extractDeps(infos, filePath) ==
    UNION {extractDepsOrdered(infos, ks, filePath) : ks \in PermSeqs(DOMAIN infos)}

\* The packages loop of parsePackageLock over the paths ps.
NodePackagesInOrder(lf, ps, filePath) ==
    LET kept == SelectSeq(ps, LAMBDA q : q # <<>> /\ lf.Packages[q].Version # <<>>)
    IN  [i \in 1..Len(kept) |->
            NodeResolvedPackage(TrimPrefix(kept[i], NodeModulesPrefix),
                                lf.Packages[kept[i]].Version, filePath)]

\* parsePackageLock: the packages of a v2/v3 lockfile, else the dependencies
\* of a v1 lockfile with their nested dependencies.
parsePackageLock(lf, filePath) ==
    IF "failed" \in DOMAIN lf THEN {<<>>}
    ELSE IF DOMAIN lf.Packages # {}
    THEN {NodePackagesInOrder(lf, ps, filePath) : ps \in PermSeqs(DOMAIN lf.Packages)}
    ELSE IF DOMAIN lf.Dependencies # {}
    THEN extractDeps([k \in DOMAIN lf.Dependencies |->
                         [version      |-> lf.Dependencies[k].Version,
                          dependencies |-> lf.Dependencies[k].Dependencies]],
                     filePath)
    ELSE {<<>>}

\* parseYarnLock, from the entries of the file.
parseYarnLock(yl, filePath) ==
    IF "failed" \in DOMAIN yl THEN <<>>
    ELSE [i \in 1..Len(yl.Packages) |->
             NodeResolvedPackage(yl.Packages[i].Name, yl.Packages[i].Version, filePath)]

\* parseAllManifests over the files from the i-th on.
RECURSIVE parseAllManifests(_, _, _)
parseAllManifests(files, paths, i) ==
    IF i > Len(files) THEN {<<>>}
    ELSE ConcatSets(parsePackageJson(files[i], paths[i]),
                    parseAllManifests(files, paths, i + 1))

\* parseAllLockfiles over the files from the i-th on.
RECURSIVE parseAllLockfiles(_, _, _)
parseAllLockfiles(files, paths, i) ==
    IF i > Len(files) THEN {<<>>}
    ELSE ConcatSets(IF isYarnLockfile(paths[i])
                    THEN {parseYarnLock(files[i], paths[i])}
                    ELSE parsePackageLock(files[i], paths[i]),
                    parseAllLockfiles(files, paths, i + 1))

\* versionSpec.replace(/^v/, '')
StripLeadingV(s) == TrimPrefix(s, <<"v">>)

\* matchDirectDependencies: the loop over the versions breaks at the first
\* one equal to the cleaned spec.
RECURSIVE matchDirectDependencies(_, _)
matchDirectDependencies(dependencies, iocMap) ==
    IF dependencies = <<>> THEN <<>>
    ELSE LET dep         == Head(dependencies)
             iocVersions == IF dep.name \in DOMAIN iocMap THEN iocMap[dep.name] ELSE <<>>
             hits        == SelectSeq(iocVersions, LAMBDA iocVersion :
                                equal(StripLeadingV(dep.versionSpec), iocVersion))
         IN  (IF iocVersions = <<>> THEN <<>>
              ELSE IF ~isExactVersion_js(dep.versionSpec) THEN <<>>
              ELSE IF hits = <<>> THEN <<>>
              ELSE <<NodeMatch(dep.name, hits[1], SeverityDirect, dep.filePath, <<>>)>>)
             \o matchDirectDependencies(Tail(dependencies), iocMap)

\* matchTransitiveDependencies: one finding, with the resolved version, per
\* resolved package equal to some listed version.
RECURSIVE matchTransitiveDependencies(_, _)
matchTransitiveDependencies(resolvedPackages, iocMap) ==
    IF resolvedPackages = <<>> THEN <<>>
    ELSE LET pkg         == Head(resolvedPackages)
             iocVersions == IF pkg.name \in DOMAIN iocMap THEN iocMap[pkg.name] ELSE <<>>
         IN  (IF \E k \in 1..Len(iocVersions) : equal(pkg.version, iocVersions[k])
              THEN <<NodeMatch(pkg.name, pkg.version, SeverityTransitive,
                               pkg.lockfilePath, <<>>)>>
              ELSE <<>>)
             \o matchTransitiveDependencies(Tail(resolvedPackages), iocMap)

\* runScan: the three matchers over all the dependencies and all the resolved
\* packages, concatenated.
runScan(lockfileOnly, manifestDeps, resolvedPackages, iocMap) ==
    LET directMatches     == IF lockfileOnly THEN <<>>
                             ELSE matchDirectDependencies(manifestDeps, iocMap)
        potentialMatches  == IF lockfileOnly THEN <<>>
                             ELSE matchPotentialDependencies(manifestDeps, iocMap)
        transitiveMatches == matchTransitiveDependencies(resolvedPackages, iocMap)
    IN  directMatches \o potentialMatches \o transitiveMatches

-----------------------------------------------------------------------------
(* SpecScan: Go RunScan, statement by statement, with a context that may be *)
(* cancelled at any moment, and Node runScan, over a project and a table.   *)

\* The IoC tables of the scans.
ScanTables ==
    {<<>>, PkgA :> <<V101>>, (PkgA :> <<V101, V110>>) @@ (PkgB :> <<V101>>)}

\* The package.json files of a project.
ScanManifests ==
    {ManifestOf({Pin101}, {}, {}, {}, <<>>),
     ManifestOf({Caret100}, {Pin101}, {}, {}, <<>>),
     ParseFailure}

\* The lockfiles of a project: a package-lock.json of a and b, a yarn.lock
\* of a, a yarn.lock with two entries of a, a file that does not parse.
ScanLockfiles ==
    {[Version      |-> 3,
      Packages     |-> (PathA :> PackageInfo(V101, EmptyObject))
                       @@ (PathB :> PackageInfo(V101, EmptyObject)),
      Dependencies |-> <<>>],
     YarnLock(<<ResolvedPackage(PkgA, V101, <<>>)>>),
     YarnLock(<<ResolvedPackage(PkgA, V101, <<>>), ResolvedPackage(PkgA, V110, <<>>)>>),
     ParseFailure}

Projects ==
    {[manifests |-> ms, lockfiles |-> ls] :
        ms \in SeqsOf(ScanManifests, 0, MaxFiles),
        ls \in SeqsOf(ScanLockfiles, 0, MaxFiles)}

InitScan ==
    /\ iocDB \in ScanTables
    /\ manifest = EmptyManifest
    /\ lockfile = EmptyLockfile
    /\ nodeDeps = <<>>
    /\ input = <<>>
    /\ matches = <<>>
    /\ op = "init"
    /\ csvData = <<>>
    /\ project \in Projects
    /\ scan \in {ScanCalled(lockfileOnly) : lockfileOnly \in BOOLEAN}
    /\ bulk = <<>>

\* The caller cancels options.Context.
CancelContext ==
    /\ scan.pc # "returned"
    /\ op = "init"
    /\ ~scan.ctxDone
    /\ scan' = [scan EXCEPT !.ctxDone = TRUE, !.cancelledAt = scan.pc]
    /\ UNCHANGED <<iocDB, manifest, lockfile, nodeDeps, input, matches, op,
                   csvData, project, bulk>>

\* RunScan, steps 1 and 2: the table is fetched and parsed and the files are
\* discovered, or one of these fails and RunScan returns the error.
RunScanDiscover ==
    /\ scan.pc = "call"
    /\ op = "init"
    /\ \E outcome \in {"ok", "fetch", "find"} :
           scan' = IF outcome = "ok"
                   THEN AfterManifest(
                            [scan EXCEPT
                                !.manifestPaths = IF scan.LockfileOnly THEN <<>>
                                                  ELSE FindManifests(project),
                                !.lockfilePaths = FindLockfiles(project)], 0)
                   ELSE ScanReturnError(scan, outcome)
    /\ UNCHANGED <<iocDB, manifest, lockfile, nodeDeps, input, matches, op,
                   csvData, project, bulk>>

\* The select at the head of an iteration of the manifest loop.
RunScanCheckManifest ==
    /\ scan.pc = "checkManifest"
    /\ scan' = IF scan.ctxDone THEN ScanReturnError(scan, "context canceled")
               ELSE [scan EXCEPT !.pc = "parseManifest"]
    /\ UNCHANGED <<iocDB, manifest, lockfile, nodeDeps, input, matches, op,
                   csvData, project, bulk>>

\* The body of the manifest loop: parse, count, MatchDirect, MatchPotential
\* (each of the three extracts the dependencies anew).
RunScanManifest ==
    /\ scan.pc = "parseManifest"
    /\ LET file == project.manifests[scan.i]
           path == scan.manifestPaths[scan.i]
       IN  IF "failed" \in DOMAIN file
           THEN scan' = AfterManifest(scan, scan.i)
           ELSE \E deps \in ExtractDependencies(file, path),
                   depsD \in ExtractDependencies(file, path),
                   depsP \in ExtractDependencies(file, path) :
                    scan' = AfterManifest(
                                [scan EXCEPT
                                    !.packagesChecked = @ + Len(deps),
                                    !.allMatches = @ \o MatchDirect(depsD, iocDB)
                                                     \o MatchPotential(depsP, iocDB)],
                                scan.i)
    /\ UNCHANGED <<iocDB, manifest, lockfile, nodeDeps, input, matches, op,
                   csvData, project, bulk>>

\* The select at the head of an iteration of the lockfile loop.
RunScanCheckLockfile ==
    /\ scan.pc = "checkLockfile"
    /\ scan' = IF scan.ctxDone THEN ScanReturnError(scan, "context canceled")
               ELSE [scan EXCEPT !.pc = "parseLockfile"]
    /\ UNCHANGED <<iocDB, manifest, lockfile, nodeDeps, input, matches, op,
                   csvData, project, bulk>>

\* The body of the lockfile loop: a yarn.lock is converted to a Lockfile, a
\* package-lock.json is taken as it is; count, MatchTransitive.
RunScanLockfile ==
    /\ scan.pc = "parseLockfile"
    /\ LET file == project.lockfiles[scan.i]
           path == scan.lockfilePaths[scan.i]
       IN  IF "failed" \in DOMAIN file
           THEN scan' = AfterLockfile(scan, scan.i)
           ELSE IF isYarnLockfile(path)
           THEN \E packages \in ExtractResolvedPackages(
                                    convertYarnToLockfile(file.Packages), path) :
                    scan' = AfterLockfile(
                                [scan EXCEPT
                                    !.packagesChecked = @ + Len(file.Packages),
                                    !.allMatches = @ \o MatchTransitive(packages, iocDB)],
                                scan.i)
           ELSE \E resolvedPackages \in ExtractResolvedPackages(file, path),
                   packages \in ExtractResolvedPackages(file, path) :
                    scan' = AfterLockfile(
                                [scan EXCEPT
                                    !.packagesChecked = @ + Len(resolvedPackages),
                                    !.allMatches = @ \o MatchTransitive(packages, iocDB)],
                                scan.i)
    /\ UNCHANGED <<iocDB, manifest, lockfile, nodeDeps, input, matches, op,
                   csvData, project, bulk>>

\* RunScan, steps 4 and 5: deduplicate, build the result, return it.
RunScanDedup ==
    /\ scan.pc = "dedup"
    /\ LET ms == DeduplicateMatches(scan.allMatches)
       IN  /\ scan' = [scan EXCEPT
                          !.pc = "returned",
                          !.allMatches = ms,
                          !.result = ScanResult(Len(scan.manifestPaths),
                                                Len(scan.lockfilePaths),
                                                scan.packagesChecked, ms, Size(iocDB))]
           /\ matches' = ms
    /\ op' = "RunScan"
    /\ UNCHANGED <<iocDB, manifest, lockfile, nodeDeps, input, csvData, project, bulk>>

\* Node runScan over the same project and table.
CallRunScan ==
    /\ scan.pc = "call"
    /\ op = "init"
    /\ \E manifestDeps \in IF scan.LockfileOnly THEN {<<>>}
                           ELSE parseAllManifests(project.manifests,
                                                  FindManifests(project), 1),
          resolvedPackages \in parseAllLockfiles(project.lockfiles,
                                                 FindLockfiles(project), 1) :
           matches' = runScan(scan.LockfileOnly, manifestDeps, resolvedPackages, iocDB)
    /\ op' = "runScan"
    /\ UNCHANGED <<iocDB, manifest, lockfile, nodeDeps, input, csvData, project,
                   scan, bulk>>

NextScan ==
    \/ CancelContext
    \/ RunScanDiscover
    \/ RunScanCheckManifest
    \/ RunScanManifest
    \/ RunScanCheckLockfile
    \/ RunScanLockfile
    \/ RunScanDedup
    \/ CallRunScan

SpecScan == InitScan /\ [][NextScan]_vars

\* The identity of a finding of the Node matchers.
NodeTripleOf(m) == <<m.packageName, m.version, m.severity>>

\* No two positions of the list of identities ts hold the same identity.
NoRepeat(ts) == \A i, j \in DOMAIN ts : i # j => ts[i] # ts[j]

\* The Go half of C11: the Matches of the ScanResult of RunScan hold no two
\* findings with the same package name, version and severity.
GoScanHasNoDuplicateTriple ==
    op = "RunScan" =>
        NoRepeat([i \in DOMAIN scan.result.Matches |-> TripleOf(scan.result.Matches[i])])

\* The Node half of C11: the matches of the results of runScan hold no two
\* findings with the same package name, version and severity.
NodeScanHasNoDuplicateTriple ==
    op = "runScan" => NoRepeat([i \in DOMAIN matches |-> NodeTripleOf(matches[i])])

\* C11: the match list a completed scan returns, Go RunScan or Node runScan,
\* contains no two findings with the same (packageName, version, severity),
\* also when a dependency appears in several manifests or lockfiles.
C11_ScanResultHasNoDuplicateTriple ==
    GoScanHasNoDuplicateTriple /\ NodeScanHasNoDuplicateTriple

-----------------------------------------------------------------------------
(* Go: pkg/ioc (ParseCSV, NewDatabase) and Node: lib/ioc.js (parseIoCCsv).  *)

\* A variant of AppendVersion in which a later row replaces the earlier ones.
AppendVersionReplacing(iocMap, packageName, version) ==
    [k \in DOMAIN iocMap \cup {packageName} |->
        IF k = packageName THEN <<version>> ELSE iocMap[k]]

\* iocMap[packageName] = append(iocMap[packageName], version)
AppendVersion(iocMap, packageName, version) ==
    [k \in DOMAIN iocMap \cup {packageName} |->
        IF k # packageName THEN iocMap[k]
        ELSE IF k \in DOMAIN iocMap THEN Append(iocMap[k], version)
        ELSE <<version>>]

\* encoding/csv Reader over a text without quotes: the lines that are not
\* empty, each split at the commas.
CsvRecords(data) ==
    LET lines == SelectSeq(Split(data, <<"\n">>), LAMBDA line : line # <<>>)
    IN  [i \in 1..Len(lines) |-> Split(lines[i], <<",">>)]

\* The loop of ParseCSV over the records after the header.  reader.Read
\* fails on a record whose number of fields is not that of the first record
\* (FieldsPerRecord is 0), and ParseCSV returns that error.
RECURSIVE ParseCSVLoop(_, _, _)
ParseCSVLoop(records, fieldsPerRecord, iocMap) ==
    IF records = <<>> THEN [iocMap |-> iocMap, err |-> "nil"]
    ELSE LET record      == Head(records)
             packageName == TrimSpace(record[1])
             versionSpec == TrimSpace(record[2])
             version     == TrimSpace(TrimPrefix(versionSpec, <<"=">>))
         IN  IF Len(record) # fieldsPerRecord
             THEN [iocMap |-> <<>>, err |-> "read CSV record"]
             ELSE IF Len(record) < 2
             THEN ParseCSVLoop(Tail(records), fieldsPerRecord, iocMap)
             ELSE IF packageName = <<>> \/ versionSpec = <<>>
             THEN ParseCSVLoop(Tail(records), fieldsPerRecord, iocMap)
             ELSE ParseCSVLoop(Tail(records), fieldsPerRecord,
                               AppendVersion(iocMap, packageName, version))

\* ioc.ParseCSV: [iocMap, err]; an input without a first record gives the
\* empty map.
ParseCSV(data) ==
    LET records == CsvRecords(data)
    IN  IF records = <<>> THEN [iocMap |-> <<>>, err |-> "nil"]
        ELSE ParseCSVLoop(Tail(records), Len(records[1]), <<>>)

\* versionPart.replace(/^=\s*/, '')
StripEquals(s) == IF HasPrefix(s, <<"=">>) THEN TrimLeft(Tail(s)) ELSE s

\* The loop of parseIoCCsv over the parts of one version cell.
RECURSIVE PushVersions(_, _)
PushVersions(versions, versionParts) ==
    IF versionParts = <<>> THEN versions
    ELSE LET version == TrimSpace(StripEquals(TrimSpace(Head(versionParts))))
         IN  PushVersions(IF version # <<>> THEN Append(versions, version)
                          ELSE versions,
                          Tail(versionParts))

\* The loop of parseIoCCsv over the lines after the header.
RECURSIVE parseIoCCsvLoop(_, _)
parseIoCCsvLoop(lines, iocMap) ==
    IF lines = <<>> THEN iocMap
    ELSE LET line        == TrimSpace(Head(lines))
             fields      == Split(line, <<",">>)
             packageName == fields[1]
             versionSpec == IF Len(fields) >= 2 THEN fields[2] ELSE <<>>
             pkgName     == TrimSpace(packageName)
             versions    == IF pkgName \in DOMAIN iocMap THEN iocMap[pkgName] ELSE <<>>
         IN  IF line = <<>> \/ packageName = <<>> \/ versionSpec = <<>>
             THEN parseIoCCsvLoop(Tail(lines), iocMap)
             ELSE parseIoCCsvLoop(
                      Tail(lines),
                      [k \in DOMAIN iocMap \cup {pkgName} |->
                          IF k = pkgName
                          THEN PushVersions(versions, Split(versionSpec, <<"|", "|">>))
                          ELSE iocMap[k]])

\* parseIoCCsv: the Map of package name to versions.
parseIoCCsv(csvText) == parseIoCCsvLoop(Tail(Split(csvText, <<"\n">>)), <<>>)

-----------------------------------------------------------------------------
(* SpecIoc: the IoC table built from a CSV text by Go NewDatabase or by     *)
(* Node parseIoCCsv.                                                       *)

\* Most rows of a CSV text after its header.
MaxRows == 3

CsvHeader ==
    <<"P", "a", "c", "k", "a", "g", "e", ",", "V", "e", "r", "s", "i", "o", "n">>

\* A row of the CSV text: its line, its kind, and the package name and the
\* versions it stands for.
CsvRow(line, kind, name, versions) ==
    [line |-> line, kind |-> kind, name |-> name, versions |-> versions]

CsvRows ==
    {CsvRow(PkgA \o <<",", "=", " ">> \o V101, "single", PkgA, <<V101>>),
     CsvRow(PkgA \o <<",", "=", " ">> \o V110, "single", PkgA, <<V110>>),
     CsvRow(PkgB \o <<",", "=">> \o V101, "single", PkgB, <<V101>>),
     CsvRow(<<" ">> \o PkgA \o <<" ", ",", " ", "=", " ">> \o V200 \o <<" ">>,
            "single", PkgA, <<V200>>),
     CsvRow(PkgA \o <<",", "=", " ">> \o V101 \o <<" ", "|", "|", " ", "=", " ">> \o V110,
            "several", PkgA, <<V101, V110>>),
     CsvRow(PkgB, "missing column", <<>>, <<>>),
     CsvRow(PkgB \o <<",">>, "empty version", <<>>, <<>>),
     CsvRow(<<",", "=", " ">> \o V101, "empty name", <<>>, <<>>),
     CsvRow(PkgB \o <<",", "=">>, "empty after =", <<>>, <<>>),
     CsvRow(<<>>, "blank", <<>>, <<>>)}

\* The text of the rows, one per line after the header.
RECURSIVE CsvText(_)
CsvText(rows) ==
    IF rows = <<>> THEN CsvHeader
    ELSE CsvText(SubSeq(rows, 1, Len(rows) - 1)) \o <<"\n">> \o rows[Len(rows)].line

InitIoc ==
    /\ iocDB = <<>>
    /\ manifest = EmptyManifest
    /\ lockfile = EmptyLockfile
    /\ nodeDeps = <<>>
    /\ \E rows \in SeqsOf(CsvRows, 0, MaxRows) :
           /\ input = rows
           /\ csvData \in {CsvText(rows)} \cup (IF rows = <<>> THEN {<<>>} ELSE {})
    /\ matches = <<>>
    /\ op = "init"
    /\ project = <<>>
    /\ scan = <<>>
    /\ bulk = <<>>

\* ioc.NewDatabase(csvData): the database of the map ParseCSV returns, or
\* its error.
CallNewDatabase ==
    /\ op = "init"
    /\ LET r == ParseCSV(csvData)
       IN  /\ iocDB' = r.iocMap
           /\ op' = IF r.err = "nil" THEN "NewDatabase" ELSE "NewDatabase failed"
    /\ UNCHANGED <<manifest, lockfile, nodeDeps, input, matches, scanVars>>

\* parseIoCCsv(csvData)
CallParseIoCCsv ==
    /\ op = "init"
    /\ iocDB' = parseIoCCsv(csvData)
    /\ op' = "parseIoCCsv"
    /\ UNCHANGED <<manifest, lockfile, nodeDeps, input, matches, scanVars>>

NextIoc ==
    \/ CallNewDatabase
    \/ CallParseIoCCsv

SpecIoc == InitIoc /\ [][NextIoc]_vars

\* The table the rows stand for: the versions of each row appended, in row
\* order, to those of its package.
RECURSIVE TableOfRows(_)
TableOfRows(rows) ==
    IF rows = <<>> THEN <<>>
    ELSE LET before == TableOfRows(SubSeq(rows, 1, Len(rows) - 1))
             row    == rows[Len(rows)]
         IN  IF row.versions = <<>> THEN before
             ELSE [k \in DOMAIN before \cup {row.name} |->
                      IF k # row.name THEN before[k]
                      ELSE IF k \in DOMAIN before THEN before[k] \o row.versions
                      ELSE row.versions]

\* Every row of rows is of one of the kinds.
RowsOfKinds(rows, kinds) == \A i \in DOMAIN rows : rows[i].kind \in kinds

\* The number of rows standing for package name.
RowsNaming(rows, name) == Cardinality({i \in DOMAIN rows : rows[i].name = name})

\* C12: in the database Go NewDatabase builds from rows of one version each,
\* the versions of a package are those of its rows in row order
\* (GetVersions), Lookup is true for each, Count is the number of distinct
\* package names and Size the number of version entries.
C12_VersionsAccumulateInRowOrder ==
    (op \in {"NewDatabase", "NewDatabase failed"}
     /\ RowsOfKinds(input, {"single", "blank"})) =>
        /\ op = "NewDatabase"
        /\ \A name \in {PkgA, PkgB} :
               /\ GetVersions(iocDB, name) = GetVersions(TableOfRows(input), name)
               /\ Len(GetVersions(iocDB, name)) = RowsNaming(input, name)
               /\ \A i \in DOMAIN input :
                      input[i].name = name => Lookup(iocDB, name, input[i].versions[1])
        /\ Count(iocDB) = Cardinality({input[i].name : i \in {j \in DOMAIN input : input[j].kind = "single"}})
        /\ Size(iocDB) = Cardinality({j \in DOMAIN input : input[j].kind = "single"})

\* Three rows of package a with three different versions have been loaded.
C12_Witness ==
    /\ op = "NewDatabase"
    /\ RowsOfKinds(input, {"single"})
    /\ Len(input) = 3
    /\ \A i \in DOMAIN input : input[i].name = PkgA
    /\ Cardinality({input[i].versions : i \in DOMAIN input}) = 3
    /\ Len(iocDB[PkgA]) = 3
    /\ Count(iocDB) = 1
    /\ Size(iocDB) = 3

\* C13: a version cell of several "= <version>" joined by || adds each
\* version as its own entry, in order, so that after Go NewDatabase (and
\* after Node parseIoCCsv) Lookup is true for each single version of the
\* cell.
C13_EachVersionOfCellIsAnEntry ==
    (op \in {"NewDatabase", "NewDatabase failed", "parseIoCCsv"}
     /\ RowsOfKinds(input, {"single", "several", "blank"})) =>
        /\ op # "NewDatabase failed"
        /\ iocDB = TableOfRows(input)
        /\ \A i \in DOMAIN input :
               \A k \in DOMAIN input[i].versions :
                   Lookup(iocDB, input[i].name, input[i].versions[k])

\* C14: Go NewDatabase returns no error whatever rows are malformed (missing
\* column, empty name, empty version), and loads every well-formed row
\* before and after them; a text without a valid row gives the empty table.
C14_MalformedRowsAreSkipped ==
    (op \in {"NewDatabase", "NewDatabase failed"}
     /\ RowsOfKinds(input, {"single", "blank", "missing column",
                            "empty name", "empty version"})) =>
        /\ op = "NewDatabase"
        /\ iocDB = TableOfRows(input)

\* C15: in the table Go NewDatabase or Node parseIoCCsv builds, every
\* package maps to a non-empty sequence of non-empty versions, and a row
\* whose version cell is empty after stripping = adds nothing.
C15_EveryPackageHasNonEmptyVersions ==
    op \in {"NewDatabase", "parseIoCCsv"} =>
        /\ \A name \in DOMAIN iocDB :
               /\ iocDB[name] # <<>>
               /\ \A k \in DOMAIN iocDB[name] : iocDB[name][k] # <<>>
        /\ RowsOfKinds(input, {"single", "blank", "empty after ="}) =>
               /\ iocDB = TableOfRows(input)
               /\ Count(iocDB) = Count(TableOfRows(input))
               /\ Size(iocDB) = Size(TableOfRows(input))

\* The positions of RunScan at which its files are being processed: the
\* heads and the bodies of the two loops.
ProcessingFiles == {"checkManifest", "parseManifest", "checkLockfile", "parseLockfile"}

\* C20: RunScan returns a nil ScanResult and a non-nil error when its
\* context was cancelled before the call or while the files were being
\* processed.
C20_CancelledScanReturnsErrorOnly ==
    (/\ scan.pc = "returned"
     /\ scan.ctxDone
     /\ scan.cancelledAt \in {"call"} \cup ProcessingFiles) =>
        /\ scan.result = <<>>
        /\ scan.err # "nil"

-----------------------------------------------------------------------------
(* SpecSemver: Node compare and equal applied to three version texts.       *)

V1000 == <<"1", "0", ".", "0", ".", "0">>

Pre101Alpha == V101 \o <<"-", "a", "l", "p", "h", "a">>

Pre101Alpha1 == V101 \o <<"-", "a", "l", "p", "h", "a", ".", "1">>

Pre101Beta == V101 \o <<"-", "b", "e", "t", "a">>

\* The texts: versions, versions with a prerelease tag, a version with a
\* leading v, a version followed by more text, and texts that do not parse.
VersionTexts ==
    {V101, V110, V200, V1000, Pre101Alpha, Pre101Alpha1, Pre101Beta,
     PinV101, FourNumbers,
     <<>>, Latest, <<"1", ".", "0">>, <<"v">>}

InitSemver ==
    /\ iocDB = <<>>
    /\ manifest = EmptyManifest
    /\ lockfile = EmptyLockfile
    /\ nodeDeps = <<>>
    /\ input \in [1..3 -> VersionTexts]
    /\ matches = <<>>
    /\ op = "init"
    /\ NoScan

\* compare(parse(a), parse(b)) for every two of the three texts, all of
\* which parse.
CallCompare ==
    /\ op = "init"
    /\ \A i \in 1..3 : parse(input[i]).ok
    /\ matches' = [i \in 1..3 |-> [j \in 1..3 |->
                      compare(parse(input[i]), parse(input[j]))]]
    /\ op' = "compare"
    /\ UNCHANGED <<iocDB, manifest, lockfile, nodeDeps, input, scanVars>>

\* equal(a, b) for every two of the three texts, and equal("v" + a, a) for
\* each.
CallEqual ==
    /\ op = "init"
    /\ matches' = [eq  |-> [i \in 1..3 |-> [j \in 1..3 |-> equal(input[i], input[j])]],
                   veq |-> [i \in 1..3 |-> equal(<<"v">> \o input[i], input[i])]]
    /\ op' = "equal"
    /\ UNCHANGED <<iocDB, manifest, lockfile, nodeDeps, input, scanVars>>

NextSemver ==
    \/ CallCompare
    \/ CallEqual

SpecSemver == InitSemver /\ [][NextSemver]_vars

\* -1, 0 or 1 as n is negative, zero or positive.
Sign(n) == IF n < 0 THEN -1 ELSE IF n > 0 THEN 1 ELSE 0

\* major, minor and patch of a parsed version.
NumbersOf(v) == <<v.major, v.minor, v.patch>>

\* C16: Node compare is a total order on parsed versions: compare(a, b) and
\* compare(b, a) have opposite signs, compare(a, b) is 0 exactly when major,
\* minor, patch and prerelease are identical, compare is transitive, the
\* order is that of (major, minor, patch) first, and with equal numbers a
\* version without prerelease tag comes after one with a tag.
C16_CompareIsTotalOrder ==
    op = "compare" =>
        LET v == [i \in 1..3 |-> parse(input[i])]
        IN  /\ \A i, j \in 1..3 :
                   /\ Sign(matches[i][j]) = -Sign(matches[j][i])
                   /\ (matches[i][j] = 0) <=> (v[i] = v[j])
                   /\ TripleLess(NumbersOf(v[i]), NumbersOf(v[j])) => matches[i][j] < 0
                   /\ (/\ NumbersOf(v[i]) = NumbersOf(v[j])
                       /\ v[i].prerelease # <<>>
                       /\ v[j].prerelease = <<>>) => matches[i][j] < 0
            /\ \A i, j, k \in 1..3 :
                   /\ (matches[i][j] <= 0 /\ matches[j][k] <= 0) => matches[i][k] <= 0
                   /\ (matches[i][j] < 0 /\ matches[j][k] <= 0) => matches[i][k] < 0
                   /\ (matches[i][j] <= 0 /\ matches[j][k] < 0) => matches[i][k] < 0

\* 1.0.1-alpha, 1.0.1-beta and 1.0.1 have been compared and come in this
\* order.
C16_Witness ==
    /\ op = "compare"
    /\ input = <<Pre101Alpha, Pre101Beta, V101>>
    /\ matches[1][2] < 0
    /\ matches[2][3] < 0
    /\ matches[1][3] < 0
    /\ matches[3][1] > 0

-----------------------------------------------------------------------------
(* Go: pkg/bulk (RunBulkScan and WorkerPool).                               *)

MaxPaths == 2

MaxWorkers == 2

\* A directory with a project, another one, and a directory that does not
\* exist.
DirP == <<"p">>

DirQ == <<"q">>

DirMissing == <<"m">>

\* A comment line and a line of blanks of a paths file.
CommentLine == <<"#", "c">>

BlankLine == <<" ">>

\* readPathsFile: the trimmed lines that are neither empty nor comments.
RECURSIVE readPathsFile(_)
readPathsFile(lines) ==
    IF lines = <<>> THEN <<>>
    ELSE The({(IF line # <<>> /\ ~HasPrefix(line, <<"#">>) THEN <<line>> ELSE <<>>)
              \o readPathsFile(Tail(lines)) : line \in {TrimSpace(Head(lines))}})

\* The errors scanner.RunScan can return for the job of a path, run with the
\* context of the pool: its discovery fails for a directory that does not
\* exist; with the pool's context cancelled it may stop at the head of a
\* loop or run to its end.
RunScanErrors(path, poolDone) ==
    (IF path = DirMissing THEN {"failed to find manifests"} ELSE {"nil"})
    \cup (IF poolDone /\ path # DirMissing THEN {"context canceled"} ELSE {})

\* processResult: the PathSummary of a result.
processResult(result) ==
    [Path   |-> result.Path,
     Status |-> IF result.Error # "nil" THEN "error" ELSE "success",
     Error  |-> result.Error]

\* A variant of AddPathSummary that counts every result as successful.
AddPathSummaryAsSuccess(summary, pathSummary) ==
    [summary EXCEPT
        !.PathResults = (pathSummary.Path :> pathSummary) @@ summary.PathResults,
        !.SuccessfulScans = @ + 1]

\* The collector's bookkeeping for one result: the map entry and the two
\* counters.
AddPathSummary(summary, pathSummary) ==
    [summary EXCEPT
        !.PathResults = (pathSummary.Path :> pathSummary) @@ summary.PathResults,
        !.SuccessfulScans = IF pathSummary.Status = "success" THEN @ + 1 ELSE @,
        !.FailedScans = IF pathSummary.Status = "success" THEN @ ELSE @ + 1]

\* summary := &BulkSummary{...}; written tells whether summary.json exists.
EmptySummary ==
    [PathResults |-> <<>>, SuccessfulScans |-> 0, FailedScans |-> 0,
     TotalPaths |-> 0, written |-> FALSE]

\* A variant of IdleWorker: a worker goroutine that has left its loop.
SpentWorker == [st |-> "exited", job |-> 0, Error |-> "nil"]

\* A worker goroutine: waiting in its select, inside RunScan, sending its
\* result, or gone.
IdleWorker == [st |-> "idle", job |-> 0, Error |-> "nil"]

\* RunBulkScan has been called with a paths file and a context.  handed and
\* received list the jobs given to workers and the results collected;
\* ctxDone is options.Context, poolDone is wp.ctx, jobsClosed is wp.jobs.
BulkCalled ==
    [pc |-> "call", NumWorkers |-> MaxWorkers, paths |-> <<>>, ctxDone |-> FALSE,
     poolDone |-> FALSE, jobsClosed |-> FALSE, panicked |-> FALSE,
     next |-> 1, workers |-> <<>>, i |-> 0,
     summary |-> EmptySummary, err |-> "nil",
     handed |-> <<>>, received |-> <<>>]

\* pool.Close(): close(wp.jobs); wp.cancel()
Close(b) == [b EXCEPT !.jobsClosed = TRUE, !.poolDone = TRUE]

-----------------------------------------------------------------------------
(* SpecBulk: a bulk run over a paths file, with its submitter goroutine,    *)
(* its workers and its collector.                                           *)

PathsFileLines == {DirP, DirQ, DirMissing, CommentLine, BlankLine}

InitBulk ==
    /\ iocDB = <<>>
    /\ manifest = EmptyManifest
    /\ lockfile = EmptyLockfile
    /\ nodeDeps = <<>>
    /\ input \in SeqsOf(PathsFileLines, 0, MaxPaths)
    /\ matches = <<>>
    /\ op = "init"
    /\ csvData = <<>>
    /\ project = <<>>
    /\ scan = <<>>
    /\ bulk \in {[BulkCalled EXCEPT !.NumWorkers = n] : n \in 1..MaxWorkers}

bulkUnchanged ==
    UNCHANGED <<iocDB, manifest, lockfile, nodeDeps, input, matches, op,
                csvData, project, scan>>

\* The caller cancels options.Context.
CancelBulkContext ==
    /\ bulk.pc # "returned"
    /\ ~bulk.panicked
    /\ ~bulk.ctxDone
    /\ bulk' = [bulk EXCEPT !.ctxDone = TRUE]
    /\ bulkUnchanged

\* RunBulkScan up to the collector loop: the paths are read, the pool is
\* started and the submitter goroutine is launched.
RunBulkScanStart ==
    /\ bulk.pc = "call"
    /\ LET paths == readPathsFile(input)
       IN  bulk' = IF Len(paths) = 0
                   THEN [bulk EXCEPT !.pc = "returned", !.err = "no paths found"]
                   ELSE [bulk EXCEPT !.pc = "collect", !.paths = paths,
                                     !.workers = [w \in 1..bulk.NumWorkers |-> IdleWorker]]
    /\ bulkUnchanged

\* Submit meets a worker's receive on the unbuffered wp.jobs: the worker
\* takes the job and enters RunScan.
SubmitJob(w) ==
    /\ bulk.pc # "call"
    /\ ~bulk.panicked
    /\ bulk.next <= Len(bulk.paths)
    /\ ~bulk.jobsClosed
    /\ w \in DOMAIN bulk.workers
    /\ bulk.workers[w].st = "idle"
    /\ bulk' = [bulk EXCEPT
                   !.next = @ + 1,
                   !.workers[w] = [st |-> "scanning", job |-> bulk.next, Error |-> "nil"],
                   !.handed = Append(@, [job |-> bulk.next, worker |-> w,
                                         ctxDone |-> bulk.ctxDone])]
    /\ bulkUnchanged

\* Submit takes the case <-wp.ctx.Done(): the job is dropped with a warning
\* and the submitter goes on with the next path.
SubmitRejected ==
    /\ bulk.pc # "call"
    /\ ~bulk.panicked
    /\ bulk.next <= Len(bulk.paths)
    /\ bulk.poolDone
    /\ bulk' = [bulk EXCEPT !.next = @ + 1]
    /\ bulkUnchanged

\* Submit takes the case wp.jobs <- job on the closed channel: the send
\* panics.
SubmitPanics ==
    /\ bulk.pc # "call"
    /\ ~bulk.panicked
    /\ bulk.next <= Len(bulk.paths)
    /\ bulk.jobsClosed
    /\ bulk' = [bulk EXCEPT !.panicked = TRUE]
    /\ bulkUnchanged

\* The worker's RunScan returns; the worker goes on to send its result.
WorkerRunScan(w) ==
    /\ ~bulk.panicked
    /\ w \in DOMAIN bulk.workers
    /\ bulk.workers[w].st = "scanning"
    /\ \E err \in RunScanErrors(bulk.paths[bulk.workers[w].job], bulk.poolDone) :
           bulk' = [bulk EXCEPT !.workers[w].st = "sending", !.workers[w].Error = err]
    /\ bulkUnchanged

\* An idle worker leaves: wp.jobs is closed or wp.ctx is done.
WorkerExit(w) ==
    /\ ~bulk.panicked
    /\ w \in DOMAIN bulk.workers
    /\ bulk.workers[w].st = "idle"
    /\ bulk.jobsClosed \/ bulk.poolDone
    /\ bulk' = [bulk EXCEPT !.workers[w].st = "exited"]
    /\ bulkUnchanged

\* One iteration of the collector loop taking a result from wp.results; the
\* last iteration goes on to close the pool, write summary.json and return.
CollectResult(w) ==
    /\ ~bulk.panicked
    /\ bulk.pc = "collect"
    /\ w \in DOMAIN bulk.workers
    /\ bulk.workers[w].st = "sending"
    /\ LET result == [Path  |-> bulk.paths[bulk.workers[w].job],
                      Error |-> bulk.workers[w].Error]
           b == [bulk EXCEPT
                    !.workers[w] = IdleWorker,
                    !.i = @ + 1,
                    !.summary = AddPathSummary(@, processResult(result)),
                    !.received = Append(@, bulk.workers[w].job)]
       IN  bulk' = IF b.i < Len(b.paths) THEN b
                   ELSE [Close(b) EXCEPT
                            !.pc = "returned",
                            !.err = "nil",
                            !.summary.TotalPaths = Len(b.paths),
                            !.summary.written = TRUE]
    /\ bulkUnchanged

\* One iteration of the collector loop taking <-options.Context.Done(): the
\* pool is closed and the context's error returned.
CollectCancelled ==
    /\ ~bulk.panicked
    /\ bulk.pc = "collect"
    /\ bulk.ctxDone
    /\ bulk' = [Close(bulk) EXCEPT !.pc = "returned", !.err = "context canceled"]
    /\ bulkUnchanged

NextBulk ==
    \/ CancelBulkContext
    \/ RunBulkScanStart
    \/ \E w \in 1..MaxWorkers : SubmitJob(w)
    \/ SubmitRejected
    \/ SubmitPanics
    \/ \E w \in 1..MaxWorkers : WorkerRunScan(w)
    \/ \E w \in 1..MaxWorkers : WorkerExit(w)
    \/ \E w \in 1..MaxWorkers : CollectResult(w)
    \/ CollectCancelled

SpecBulk == InitBulk /\ [][NextBulk]_vars

\* No job was handed to a worker after options.Context was cancelled.
NoJobHandedAfterCancel ==
    \A k \in DOMAIN bulk.handed : ~bulk.handed[k].ctxDone

\* No dispatched job is cut short or lost: no scan ends with the error of a
\* cancelled context, and the run does not return while a worker is inside
\* RunScan or holds a result.
DispatchedJobsFinish ==
    \A w \in DOMAIN bulk.workers :
        /\ bulk.workers[w].Error # "context canceled"
        /\ bulk.pc = "returned" => bulk.workers[w].st \notin {"scanning", "sending"}

\* A cancelled run returns the context's error and has written the summary
\* of the results it collected.
CancelledRunReportsCompleted ==
    (bulk.pc = "returned" /\ bulk.err = "context canceled") => bulk.summary.written

\* C18: once the context of a bulk run is cancelled no further job is handed
\* to a worker, the jobs already dispatched finish or fail on their own, and
\* the run reports the projects completed so far with the cancellation.
C18_CancelStopsDispatchAndReports ==
    /\ NoJobHandedAfterCancel
    /\ DispatchedJobsFinish
    /\ CancelledRunReportsCompleted
    /\ ~bulk.panicked

\* The number of entries of the list s that are k.
JobCount(s, k) == Cardinality({n \in DOMAIN s : s[n] = k})

\* C19: a bulk run that is not cancelled scans every path of the paths file
\* once, on one worker, and collects one result for it, whose status is
\* success or error as that path's own scan went, whatever the other paths;
\* on return SuccessfulScans + FailedScans = TotalPaths = number of paths.
C19_EveryPathScannedOnceAndCounted ==
    (bulk.pc = "returned" /\ ~bulk.ctxDone /\ readPathsFile(input) # <<>>) =>
        LET paths == readPathsFile(input)
            failing == {k \in DOMAIN paths : paths[k] = DirMissing}
        IN  /\ bulk.err = "nil"
            /\ bulk.paths = paths
            /\ \A k \in DOMAIN paths :
                   /\ JobCount([n \in DOMAIN bulk.handed |-> bulk.handed[n].job], k) = 1
                   /\ JobCount(bulk.received, k) = 1
                   /\ paths[k] \in DOMAIN bulk.summary.PathResults
                   /\ bulk.summary.PathResults[paths[k]].Status =
                          IF k \in failing THEN "error" ELSE "success"
            /\ bulk.summary.FailedScans = Cardinality(failing)
            /\ bulk.summary.SuccessfulScans = Len(paths) - Cardinality(failing)
            /\ bulk.summary.SuccessfulScans + bulk.summary.FailedScans
                   = bulk.summary.TotalPaths
            /\ bulk.summary.TotalPaths = Len(paths)
            /\ bulk.summary.written

\* A run over a file with p and the missing directory has returned,
\* uncancelled, with one success and one failure, each worker having scanned
\* one of the two paths.
C19_Witness ==
    /\ bulk.pc = "returned"
    /\ ~bulk.ctxDone
    /\ input = <<DirP, DirMissing>>
    /\ bulk.summary.SuccessfulScans = 1
    /\ bulk.summary.FailedScans = 1
    /\ bulk.summary.TotalPaths = 2
    /\ {bulk.handed[n].worker : n \in DOMAIN bulk.handed} = 1..MaxWorkers

-----------------------------------------------------------------------------
(* SpecLock: Go ExtractResolvedPackages and MatchTransitive over lockfiles  *)
(* whose entries are nested up to MaxDepth levels.                          *)

MaxDepth == 4

\* The package at level k of the chain a > b > a > b ...
NameAt(k) == IF k % 2 = 1 THEN PkgA ELSE PkgB

\* The key of the package at level k in the packages map of a v2/v3
\* lockfile: node_modules/a, node_modules/a/node_modules/b, ...
RECURSIVE PathAt(_)
PathAt(k) ==
    IF k = 1 THEN NodeModulesPrefix \o NameAt(1)
    ELSE PathAt(k - 1) \o <<"/">> \o NodeModulesPrefix \o NameAt(k)

\* The JSON objects of a package at level k of a v1 lockfile: an optional
\* "version" and an optional "dependencies" object holding the package of
\* the next level.
RECURSIVE PackageObjects(_)
PackageObjects(k) ==
    LET own == {Bind(KeyVersion, v) : v \in Opt({V101, V200})}
    IN  {[strs |-> s, objs |-> <<>>] : s \in own}
        \cup
        (IF k < MaxDepth
         THEN {[strs |-> s,
                objs |-> (KeyDependencies :>
                             [strs |-> <<>>, objs |-> (NameAt(k + 1) :> c)])] :
                   s \in own, c \in PackageObjects(k + 1)}
         ELSE {})

\* json.Unmarshal of a package object into a PackageInfo.
PackageInfoOf(o) ==
    PackageInfo(VersionOfObject(o),
                IF KeyDependencies \in DOMAIN o.objs
                THEN o.objs[KeyDependencies] ELSE EmptyObject)

DeepLockfilesV1 ==
    {[Version      |-> 1,
      Packages     |-> <<>>,
      Dependencies |-> (NameAt(1) :> PackageInfoOf(o))] : o \in PackageObjects(1)}

DeepLockfilesV3 ==
    {[Version      |-> 3,
      Packages     |-> [q \in DOMAIN f |-> PackageInfo(f[q], EmptyObject)],
      Dependencies |-> <<>>] :
        f \in UNION {[{PathAt(k) : k \in D} -> {V101, V200}] :
                         D \in (SUBSET (1..MaxDepth)) \ {{}}}}

LockTables ==
    {PkgA :> <<V101>>, (PkgA :> <<V101, V200>>) @@ (PkgB :> <<V101>>), PkgB :> <<V200>>}

InitLock ==
    /\ iocDB \in LockTables
    /\ manifest = EmptyManifest
    /\ lockfile \in DeepLockfilesV1 \cup DeepLockfilesV3
    /\ nodeDeps = <<>>
    /\ input = <<>>
    /\ matches = <<>>
    /\ op = "init"
    /\ NoScan

CallExtractResolvedPackages ==
    /\ op = "init"
    /\ input' \in ExtractResolvedPackages(lockfile, LockfilePath)
    /\ op' = "ExtractResolvedPackages"
    /\ UNCHANGED <<iocDB, manifest, lockfile, nodeDeps, matches>>
    /\ UNCHANGED scanVars

NextLock ==
    \/ CallExtractResolvedPackages
    \/ CallMatchTransitive

SpecLock == InitLock /\ [][NextLock]_vars

\* The package a path of the packages map installs: what follows the last
\* node_modules/ of the path.
OwnName(path) ==
    LET parts == Split(path, NodeModulesPrefix) IN parts[Len(parts)]

\* The paths of the v2/v3 lockfile lf that install n at the version v.
PathsInstalling(lf, n, v) ==
    {q \in DOMAIN lf.Packages : OwnName(q) = n /\ lf.Packages[q].Version = v}

\* C21: every entry of the packages map of a v2/v3 lockfile, whatever the
\* depth of its path, is extracted under the package's own name, so that
\* MatchTransitive gives one TRANSITIVE finding per entry whose version is
\* listed for that package.
C21_NestedPathsReportedUnderOwnName ==
    (op = "MatchTransitive" /\ DOMAIN lockfile.Packages # {}) =>
        \A n \in {PkgA, PkgB}, v \in {V101, V200} :
            Listed(iocDB, n, v) =>
                CountOf(matches, n, v, SeverityTransitive)
                    = Cardinality(PathsInstalling(lockfile, n, v))

\* The package objects with a version in the chain below the object o of
\* level k, as <<level, name, version>>.
RECURSIVE ObjectEntries(_, _)
ObjectEntries(k, o) ==
    (IF VersionOfObject(o) # <<>> THEN {<<k, NameAt(k), VersionOfObject(o)>>} ELSE {})
    \cup
    (IF KeyDependencies \in DOMAIN o.objs
     THEN UNION {ObjectEntries(k + 1, o.objs[KeyDependencies].objs[n]) :
                     n \in DOMAIN o.objs[KeyDependencies].objs}
     ELSE {})

\* The package objects with a version of the v1 lockfile lf.
VersionedEntries(lf) ==
    UNION {(IF lf.Dependencies[n].Version # <<>>
            THEN {<<1, n, lf.Dependencies[n].Version>>} ELSE {})
           \cup
           UNION {ObjectEntries(2, lf.Dependencies[n].Dependencies.objs[m]) :
                      m \in DOMAIN lf.Dependencies[n].Dependencies.objs} :
               n \in DOMAIN lf.Dependencies}

\* C25: ExtractResolvedPackages on a v1 lockfile returns one ResolvedPackage
\* per package object with a non-empty version, at whatever depth of the
\* dependencies tree, and nothing else.
C25_V1FlattenReturnsEveryDepth ==
    (op = "ExtractResolvedPackages" /\ DOMAIN lockfile.Dependencies # {}) =>
        /\ Len(input) = Cardinality(VersionedEntries(lockfile))
        /\ \A n \in {PkgA, PkgB}, v \in {V101, V200} :
               Cardinality({i \in DOMAIN input :
                                input[i].Name = n /\ input[i].Version = v})
                   = Cardinality({e \in VersionedEntries(lockfile) :
                                      e[2] = n /\ e[3] = v})

-----------------------------------------------------------------------------
(* SpecRange: Node satisfies applied to a version and a caret or tilde      *)
(* range.                                                                   *)

V003 == <<"0", ".", "0", ".", "3">>

V004 == <<"0", ".", "0", ".", "4">>

V010 == <<"0", ".", "1", ".", "0">>

V011 == <<"0", ".", "1", ".", "1">>

V020 == <<"0", ".", "2", ".", "0">>

Pre110Alpha == V110 \o <<"-", "a", "l", "p", "h", "a">>

Pre200Alpha == V200 \o <<"-", "a", "l", "p", "h", "a">>

\* Versions with major 0 and minor 0, with major 0, and with major 1 and 2,
\* some with a prerelease tag.
RangeVersions ==
    {V003, V004, V010, V011, V020, V101, Pre101Alpha, V110, Pre110Alpha,
     V200, Pre200Alpha}

InitRange ==
    /\ iocDB = <<>>
    /\ manifest = EmptyManifest
    /\ lockfile = EmptyLockfile
    /\ nodeDeps = <<>>
    /\ input \in RangeVersions \X RangeVersions
    /\ matches = <<>>
    /\ op = "init"
    /\ NoScan

\* satisfies(version, "^" + r)
CallSatisfiesCaret ==
    /\ op = "init"
    /\ matches' = satisfies(input[1], <<"^">> \o input[2])
    /\ op' = "caret"
    /\ UNCHANGED <<iocDB, manifest, lockfile, nodeDeps, input, scanVars>>

\* satisfies(version, "~" + r)
CallSatisfiesTilde ==
    /\ op = "init"
    /\ matches' = satisfies(input[1], <<"~">> \o input[2])
    /\ op' = "tilde"
    /\ UNCHANGED <<iocDB, manifest, lockfile, nodeDeps, input, scanVars>>

NextRange ==
    \/ CallSatisfiesCaret
    \/ CallSatisfiesTilde

SpecRange == InitRange /\ [][NextRange]_vars

\* The next bump of the left-most non-zero component of r, as numbers.
NextBump(r) ==
    IF r.major > 0 THEN <<r.major + 1, 0, 0>>
    ELSE IF r.minor > 0 THEN <<0, r.minor + 1, 0>>
    ELSE <<0, 0, r.patch + 1>>

\* C22: satisfies(v, ^r) is true exactly when compare(v, r) >= 0 and the
\* numbers of v are below the next bump of the left-most non-zero component
\* of r.
C22_CaretIsNpmInterval ==
    op = "caret" =>
        LET v == parse(input[1])
            r == parse(input[2])
        IN  matches = (/\ compare(v, r) >= 0
                       /\ TripleLess(NumbersOf(v), NextBump(r)))

\* C23: satisfies(v, ~r) is true exactly when compare(v, r) >= 0 and
\* compare(v, r.major.(r.minor+1).0) < 0, for v with or without a
\* prerelease tag.
C23_TildeIsInterval ==
    op = "tilde" =>
        LET v == parse(input[1])
            r == parse(input[2])
            upper == [ok |-> TRUE, major |-> r.major, minor |-> r.minor + 1,
                      patch |-> 0, prerelease |-> <<>>]
        IN  matches = (compare(v, r) >= 0 /\ compare(v, upper) < 0)

-----------------------------------------------------------------------------
(* SpecBulkLive: a bulk run whose context is never cancelled, with the Go   *)
(* scheduler's guarantees: a goroutine that can run does run, a send and a  *)
(* receive waiting on the same channel meet, and every scan terminates.     *)

NextBulkLive ==
    \/ RunBulkScanStart
    \/ \E w \in 1..MaxWorkers : SubmitJob(w)
    \/ \E w \in 1..MaxWorkers : WorkerRunScan(w)
    \/ \E w \in 1..MaxWorkers : CollectResult(w)
    \/ \E w \in 1..MaxWorkers : WorkerExit(w)

SpecBulkLive ==
    /\ InitBulk
    /\ [][NextBulkLive]_vars
    /\ WF_vars(RunBulkScanStart)
    /\ \A w \in 1..MaxWorkers :
           /\ WF_vars(SubmitJob(w))
           /\ WF_vars(WorkerRunScan(w))
           /\ WF_vars(CollectResult(w))
           /\ WF_vars(WorkerExit(w))

\* C24: with unbuffered job and result channels, any number of workers and
\* any non-empty list of paths, a run that is not cancelled and whose scans
\* terminate hands every job to a worker, receives every result and returns.
C24_UncancelledRunReturns ==
    <>(/\ bulk.pc = "returned"
       /\ readPathsFile(input) # <<>> =>
              /\ bulk.err = "nil"
              /\ Len(bulk.handed) = Len(readPathsFile(input))
              /\ Len(bulk.received) = Len(readPathsFile(input)))

\* A run of one worker over more than one path has returned with all its
\* results.
C24_Witness ==
    /\ bulk.pc = "returned"
    /\ bulk.NumWorkers = 1
    /\ Len(bulk.paths) = MaxPaths
    /\ Len(bulk.received) = MaxPaths
    /\ bulk.err = "nil"

-----------------------------------------------------------------------------
(* RunScan and the files that do not parse.                                 *)

\* The (name, version, severity) of the findings of the manifests of the
\* project p that parse.
ManifestTriples(p, db) ==
    UNION {UNION {{TripleOf(m) : m \in Range(MatchDirect(deps, db))}
                  \cup {TripleOf(m) : m \in Range(MatchPotential(deps, db))} :
                      deps \in ExtractDependencies(p.manifests[i], FindManifests(p)[i])} :
           i \in {j \in DOMAIN p.manifests : "failed" \notin DOMAIN p.manifests[j]}}

\* The (name, version, severity) of the findings of the lockfiles of the
\* project p that parse.
LockfileTriples(p, db) ==
    UNION {UNION {{TripleOf(m) : m \in Range(MatchTransitive(packages, db))} :
                      packages \in ExtractResolvedPackages(
                                       IF "yarn" \in DOMAIN p.lockfiles[i]
                                       THEN convertYarnToLockfile(p.lockfiles[i].Packages)
                                       ELSE p.lockfiles[i],
                                       FindLockfiles(p)[i])} :
           i \in {j \in DOMAIN p.lockfiles : "failed" \notin DOMAIN p.lockfiles[j]}}

\* C26: a manifest or lockfile that fails to parse does not abort RunScan:
\* a scan whose context is not cancelled and whose discovery succeeds
\* returns no error, counts every discovered file and returns the findings
\* of all the files that parse.
C26_UnparseableFileIsSkipped ==
    (/\ scan.pc = "returned"
     /\ ~scan.ctxDone
     /\ scan.err \notin {"fetch", "find"}) =>
        /\ scan.err = "nil"
        /\ scan.result # <<>>
        /\ scan.result.LockfilesScanned = Len(project.lockfiles)
        /\ scan.result.ManifestsScanned =
               IF scan.LockfileOnly THEN 0 ELSE Len(project.manifests)
        /\ {TripleOf(m) : m \in Range(scan.result.Matches)} =
               (IF scan.LockfileOnly THEN {} ELSE ManifestTriples(project, iocDB))
               \cup LockfileTriples(project, iocDB)

\* A scan of a manifest that does not parse, a lockfile that does not parse
\* and, after it, a lockfile that installs a listed version has returned the
\* finding of the latter.
C26_Witness ==
    /\ scan.pc = "returned"
    /\ ~scan.ctxDone
    /\ scan.err = "nil"
    /\ ~scan.LockfileOnly
    /\ Len(project.manifests) = 1
    /\ "failed" \in DOMAIN project.manifests[1]
    /\ Len(project.lockfiles) = 2
    /\ "failed" \in DOMAIN project.lockfiles[1]
    /\ "failed" \notin DOMAIN project.lockfiles[2]
    /\ Len(scan.result.Matches) > 0
    /\ scan.result.Matches[1].Severity = SeverityTransitive

\* C27: in a scan that returns a result, every entry of every yarn.lock
\* whose version is listed for its package has a TRANSITIVE finding, also
\* when the yarn.lock holds several entries of one package.
C27_EveryYarnEntryIsMatched ==
    (scan.pc = "returned" /\ scan.err = "nil" /\ scan.result # <<>>) =>
        \A i \in DOMAIN project.lockfiles :
            "yarn" \in DOMAIN project.lockfiles[i] =>
                \A k \in DOMAIN project.lockfiles[i].Packages :
                    LET e == project.lockfiles[i].Packages[k]
                    IN  Listed(iocDB, e.Name, e.Version) =>
                            <<e.Name, e.Version, SeverityTransitive>>
                                \in {TripleOf(m) : m \in Range(scan.result.Matches)}

-----------------------------------------------------------------------------
(* SpecNodeDirect: Node matchDirectDependencies applied to declared         *)
(* dependencies and an IoC map.                                             *)

Pre101Next == V101 \o <<"-", "n", "e", "x", "t">>

PinVPre101Alpha == <<"v">> \o Pre101Alpha

\* Specs that are complete versions: plain, with a leading v, with a
\* prerelease tag.
NodePinSpecs == {Pin101, PinV101, Pin300, Pre101Alpha, PinVPre101Alpha, Pre101Next}

NodeDirectLists ==
    {<<NodeDependency(PkgA, s, ManifestPath)>> : s \in NodePinSpecs \cup {Caret100}}
    \cup
    {<<NodeDependency(PkgA, s, ManifestPath), NodeDependency(PkgB, s2, ManifestPath)>> :
        s \in NodePinSpecs \cup {Caret100}, s2 \in {Pin101, Pre101Next}}

NodeDirectTables ==
    {(PkgA :> va) @@ Bind(PkgB, vb) :
        va \in SeqsOf({V101, V110, Pre101Alpha, Pre101Next}, 1, MaxVersions),
        vb \in Opt({<<V101>>, <<Pre101Next>>})}

InitNodeDirect ==
    /\ iocDB \in NodeDirectTables
    /\ manifest = EmptyManifest
    /\ lockfile = EmptyLockfile
    /\ nodeDeps \in NodeDirectLists
    /\ input = <<>>
    /\ matches = <<>>
    /\ op = "init"
    /\ NoScan

\* matchDirectDependencies(nodeDeps, iocDB)
CallMatchDirectDependencies ==
    /\ op = "init"
    /\ matches' = matchDirectDependencies(nodeDeps, iocDB)
    /\ op' = "matchDirectDependencies"
    /\ UNCHANGED <<iocDB, manifest, lockfile, nodeDeps, input, scanVars>>

NextNodeDirect == CallMatchDirectDependencies

SpecNodeDirect == InitNodeDirect /\ [][NextNodeDirect]_vars

\* C30: the Node matcher gives exactly one DIRECT finding for every
\* declared dependency whose spec is a version MAJOR.MINOR.PATCH, with or
\* without a prerelease tag and a leading v, that is listed for its package.
C30_NodeDirectMissesNoPin ==
    op = "matchDirectDependencies" =>
        \A i \in DOMAIN nodeDeps :
            (/\ nodeDeps[i].versionSpec \in NodePinSpecs
             /\ Listed(iocDB, nodeDeps[i].name, StripV(nodeDeps[i].versionSpec))) =>
                Cardinality({k \in DOMAIN matches :
                                 /\ matches[k].packageName = nodeDeps[i].name
                                 /\ matches[k].severity = SeverityDirect
                                 /\ matches[k].version = StripV(nodeDeps[i].versionSpec)})
                    = 1

-----------------------------------------------------------------------------
(* Submit, Close and the workers of a bulk run that may be cancelled.       *)

\* C28: in every interleaving of Submit with Close, Submit delivers its job
\* or returns the error of a closed pool; it never sends on the closed jobs
\* channel, that is, it never panics.
C28_SubmitNeverSendsOnClosedChannel == ~bulk.panicked

\* SpecBulkFair: the bulk run with cancellation under the scheduler's
\* guarantees: every step of the submitter, of a worker and of the collector
\* that stays possible is taken.
SpecBulkFair ==
    /\ InitBulk
    /\ [][NextBulk]_vars
    /\ WF_vars(RunBulkScanStart)
    /\ WF_vars(SubmitRejected)
    /\ WF_vars(CollectCancelled)
    /\ \A w \in 1..MaxWorkers :
           /\ WF_vars(SubmitJob(w))
           /\ WF_vars(WorkerRunScan(w))
           /\ WF_vars(CollectResult(w))
           /\ WF_vars(WorkerExit(w))

\* Every worker goroutine of the pool has returned.
AllWorkersExited ==
    \A w \in DOMAIN bulk.workers : bulk.workers[w].st = "exited"

\* C29: once Close has been called every worker goroutine eventually
\* terminates (or the process has ended in a panic), whatever the worker was
\* doing when Close was called.
C29_WorkersTerminateAfterClose ==
    bulk.jobsClosed ~> (AllWorkersExited \/ bulk.panicked)

=============================================================================
